---- MODULE Spec2Model ----
(***************************************************************************)
(* Reconciliation engine and usage-limit / burst accounting of the         *)
(* multi-tenant supplier service (app/services/conciliacion_service.py).   *)
(*                                                                         *)
(* The database is modelled as its committed tables plus the uncommitted   *)
(* work of the one session that serves the request in flight (the engine   *)
(* runs READ COMMITTED, so other transactions see the committed tables     *)
(* only).  RFCs are numbers 1..MaxRfc; an RFC string that is not yet        *)
(* upper-cased / trimmed is the number plus a multiple of FormaCruda.      *)
(***************************************************************************)
EXTENDS Integers, Sequences, FiniteSets, TLC

\* ------------------------------------------------------------------ bounds
\* tenants of the add-only specification; the fleet has one more
NumTenants == 2
NumTenantsFlota == NumTenants + 1
\* RFCs 1..MaxRfc, batches and RFC lists of up to MaxLote entries and plan
\* limits 0..MaxLimite in the small specifications
MaxRfc == 3
MaxLote == 2
MaxLimite == MaxRfc
\* reconciliation runs per tenant in one behaviour
MaxCorridas == 1
\* payment orders created in a behaviour
MaxOrdenes == 2
\* membership requests that run beside each other
NumProcesos == 2
\* RFCs 1..MaxRfcBurst and plan limits 0..MaxLimiteBurst in the burst
\* specification
MaxRfcBurst == 24
MaxLimiteBurst == 20

\* -------------------------------------------------------- program constants
NULL == -1
\* tenant.plan of a tenant whose plan row is missing
SinPlan == -2
FormaCruda == 100

SinRazon == "None"
NoEncontrado == "No encontrado"
YaExiste == "ya existe"
AvisoInactivo == "RFC agregado como INACTIVO (limite de burst alcanzado)"
ErrorCreando == "Error creando relacion"

Tenants == 1..NumTenants
Rfcs == 1..MaxRfc
Limites == (0..MaxLimite) \cup {NULL}

\* ------------------------------------------------------------------- state
VARIABLES
    planes,                   \* tenant -> Plan.limite_proveedores (NULL = unlimited)
    tenant_proveedores,       \* committed rows of test.tenant_proveedores
    conciliacion_historial,   \* committed rows of test.conciliacion_historial
    resultado_conciliaciones, \* committed rows of test.resultado_conciliaciones
    proveedores,              \* Supplier Directory: rfc -> situacion ("" = no row)
    dof_contribuyentes,       \* Gazette Directory: rows [rfc, dof_articulo_id, situacion]
    sesion,                   \* uncommitted (flushed) work of the session in flight
    pc,                       \* position of the request in flight
    req,                      \* locals of the request in flight
    flota,                    \* loop state of the fleet runner
    ultimo,                   \* response of the last finished operation
    reloj,                    \* [id, now, corrida]: last row id, last created_at, last
                              \* run id; [max_id, pasos]: the cap on row ids and the
                              \* steps the client clock can take between two rows
    seleccion,                \* history: run id -> the RFC list selected for the run
    ordenes,                  \* committed rows of test.ordenes_pago_excedentes, by id
    transacciones             \* membership requests in flight in sessions of their
                              \* own: process -> what the request read so far

vars == <<planes, tenant_proveedores, conciliacion_historial,
          resultado_conciliaciones, proveedores, dof_contribuyentes,
          sesion, pc, req, flota, ultimo, reloj, seleccion, ordenes,
          transacciones>>

\* ----------------------------------------------------------------- helpers
Min(a, b) == IF a < b THEN a ELSE b
Max(a, b) == IF a > b THEN a ELSE b

Rango(s) == {s[i] : i \in 1..Len(s)}

SecuenciasHasta(S, n) == UNION {[1..k -> S] : k \in 0..n}

\* rows of one tenant / active rows of one tenant, in a table tp
FilasDe(tp, t) == {f \in tp : f.tenant_id = t}
ActivosDe(tp, t) == {f \in tp : f.tenant_id = t /\ f.activo}

\* the burst computed with 1.15 in the place of 0.15
LimiteBurstDeMas(limite_rfcs) == limite_rfcs + ((limite_rfcs * 115) \div 100)

\* limite_burst = limite_rfcs + int(limite_rfcs * 0.15); the float product
\* truncates to floor(15*L/100) for every L below two million
LimiteBurst(limite_rfcs) == limite_rfcs + ((limite_rfcs * 15) \div 100)

\* --------------------------------------------------- membership store (ORM)
\* the table without the constraint
uq_ausente(tp) == TRUE

\* UniqueConstraint('tenant_id', 'rfc', name='uq_tenant_proveedor')
uq_tenant_proveedor(tp) ==
    \A f, g \in tp : (f.tenant_id = g.tenant_id /\ f.rfc = g.rfc) => f = g

\* get_by_tenant_and_rfcs_batch: the RFCs of the list the tenant already holds
get_by_tenant_and_rfcs_batch(tp, t, rfcs) ==
    {f \in FilasDe(tp, t) : f.rfc \in Rango(rfcs)}

\* the rows a flush inserts for the list nuevos of [rfc, activo, razon_social]:
\* ids are fresh, created_at is the client clock read once per row (paso = 0:
\* the clock did not advance between the rows), grupo_id is None
FilasNuevas(t, nuevos, rel, paso) ==
    {[id |-> rel.id + k, tenant_id |-> t, rfc |-> nuevos[k].rfc,
      activo |-> nuevos[k].activo, created_at |-> rel.now + paso * k,
      grupo_id |-> NULL, razon_social |-> nuevos[k].razon_social]
        : k \in 1..Len(nuevos)}

\* create_relations_batch_with_status: add_all + flush; an IntegrityError is
\* caught, the session rolled back and [] returned
create_relations_batch_with_status(tp, t, nuevos, rel, paso) ==
    LET filas == FilasNuevas(t, nuevos, rel, paso) IN
    IF Cardinality(filas) = Len(nuevos) /\ uq_tenant_proveedor(tp \cup filas)
    THEN filas
    ELSE {}

\* the decision loop of both batch-add functions (lines 102-125, 211-238), one
\* decision per input position: an RFC the tenant holds is reported, a new one
\* is active iff the running counter total_activos is below limite_burst
RECURSIVE DecidirLote(_, _, _, _)
DecidirLote(rfcs, existentes, total_activos, limite_burst) ==
    IF rfcs = <<>> THEN <<>>
    ELSE LET rfc == Head(rfcs) IN
         IF rfc \in existentes
         THEN <<[rfc |-> rfc, existe |-> TRUE, activo |-> FALSE]>>
              \o DecidirLote(Tail(rfcs), existentes, total_activos, limite_burst)
         ELSE IF total_activos < limite_burst
              THEN <<[rfc |-> rfc, existe |-> FALSE, activo |-> TRUE]>>
                   \o DecidirLote(Tail(rfcs), existentes,
                                  total_activos + 1, limite_burst)
              ELSE <<[rfc |-> rfc, existe |-> FALSE, activo |-> FALSE]>>
                   \o DecidirLote(Tail(rfcs), existentes,
                                  total_activos, limite_burst)

\* the dictionaries handed to the insert; razon is the razon_social the request
\* carries for its rows (SinRazon: none)
SoloRfcActivo(d, razon) ==
    [k \in 1..Len(d) |->
        [rfc |-> d[k].rfc, activo |-> d[k].activo, razon_social |-> razon]]

\* the result dictionary of one RFC in agregar_proveedores_batch
ResultadoBatch(rfc, existentes, nuevos, creadas) ==
    IF \E f \in existentes : f.rfc = rfc
    THEN [rfc |-> rfc,
          proveedor_id |-> (CHOOSE f \in existentes : f.rfc = rfc).id,
          error |-> YaExiste]
    ELSE IF \E f \in creadas : f.rfc = rfc
    THEN LET n == CHOOSE k \in 1..Len(nuevos) : nuevos[k].rfc = rfc IN
         [rfc |-> rfc,
          proveedor_id |-> (CHOOSE f \in creadas : f.rfc = rfc).id,
          error |-> IF nuevos[n].activo THEN "" ELSE AvisoInactivo]
    ELSE [rfc |-> rfc, proveedor_id |-> 0, error |-> ErrorCreando]

\* agregar_proveedores_batch as called by the route agregar_proveedor, which
\* passes the plan limit and commits.  The value is the new table and the
\* response.
agregar_proveedores_batch(tp, t, rfcs_norm, limite_rfcs, rel, paso, razon) ==
    IF limite_rfcs = NULL
    THEN \* None + int(None * 0.15) raises TypeError: the route answers 500
         [tp |-> tp, estado |-> "error", resultados |-> <<>>]
    ELSE
    LET total_activos == Cardinality(ActivosDe(tp, t))
        limite_burst == LimiteBurst(limite_rfcs)
        existentes == get_by_tenant_and_rfcs_batch(tp, t, rfcs_norm)
        d == DecidirLote(rfcs_norm, {f.rfc : f \in existentes},
                         total_activos, limite_burst)
        proveedores_nuevos_activos ==
            SelectSeq(d, LAMBDA x : ~ x.existe /\ x.activo)
        proveedores_nuevos_inactivos ==
            SelectSeq(d, LAMBDA x : ~ x.existe /\ ~ x.activo)
        nuevos == SoloRfcActivo(proveedores_nuevos_activos
                                \o proveedores_nuevos_inactivos, razon)
        creadas == IF nuevos = <<>> THEN {}
                   ELSE create_relations_batch_with_status(tp, t, nuevos, rel, paso)
    IN [tp |-> tp \cup creadas,
        estado |-> "ok",
        resultados |-> [k \in 1..Len(rfcs_norm) |->
                          ResultadoBatch(rfcs_norm[k], existentes, nuevos, creadas)]]

\* the file's rows written over the rows the tenant holds, as a new row is
SobrescribirFilas(tp, existentes, razon) ==
    {IF f \in existentes
     THEN [f EXCEPT !.razon_social = razon, !.activo = TRUE, !.grupo_id = NULL]
     ELSE f : f \in tp}

\* the rows of tp with the data of the file written onto the rows the tenant
\* already holds (lines 215-223: only a value that is present is written;
\* fecha_inicio and fecha_baja are written the same way)
ActualizarDatos(tp, existentes, razon) ==
    IF razon = SinRazon THEN tp
    ELSE {IF f \in existentes THEN [f EXCEPT !.razon_social = razon] ELSE f
            : f \in tp}

\* agregar_proveedores_batch_con_datos as called by agregar_proveedor_archivo:
\* every new row is added and flushed on its own; a failed flush leaves the
\* session's transaction rolled back, so the commit at the end raises and the
\* whole call fails with nothing created
agregar_proveedores_batch_con_datos(tp, t, datos, limite_rfcs, rel, paso, razon) ==
    IF limite_rfcs = NULL
    THEN [tp |-> tp, estado |-> "error", resultados |-> <<>>]
    ELSE
    LET total_activos == Cardinality(ActivosDe(tp, t))
        limite_burst == LimiteBurst(limite_rfcs)
        existentes == get_by_tenant_and_rfcs_batch(tp, t, datos)
        d == DecidirLote(datos, {f.rfc : f \in existentes},
                         total_activos, limite_burst)
        rfcs_a_crear == SoloRfcActivo(SelectSeq(d, LAMBDA x : ~ x.existe), razon)
        ya == SelectSeq(d, LAMBDA x : x.existe)
        filas == FilasNuevas(t, rfcs_a_crear, rel, paso)
    IN IF ~ uq_tenant_proveedor(tp \cup filas)
       THEN [tp |-> tp, estado |-> "error", resultados |-> <<>>]
       ELSE [tp |-> ActualizarDatos(tp, existentes, razon) \cup filas,
             estado |-> "ok",
             resultados |->
                [k \in 1..Len(ya) |->
                    [rfc |-> ya[k].rfc,
                     proveedor_id |-> (CHOOSE f \in existentes : f.rfc = ya[k].rfc).id,
                     error |-> YaExiste]]
                \o
                [k \in 1..Len(rfcs_a_crear) |->
                    [rfc |-> rfcs_a_crear[k].rfc,
                     proveedor_id |-> rel.id + k,
                     error |-> IF rfcs_a_crear[k].activo THEN "" ELSE AvisoInactivo]]]

\* the clock after the rows of tp2 that tp did not hold were inserted
RelojTras(rel, tp, tp2) ==
    LET nuevas == {f \in tp2 : \A g \in tp : g.id # f.id} IN
    IF nuevas = {} THEN rel
    ELSE [rel EXCEPT !.id = @ + Cardinality(nuevas),
                     !.now = CHOOSE c \in {f.created_at : f \in nuevas} :
                                \A f \in nuevas : f.created_at <= c]

\* an update that also stamps the row with the time of the change
FilaRefechada(relation, activo, tp) ==
    [relation EXCEPT !.activo = activo,
                     !.created_at = 1 + (CHOOSE c \in {f.created_at : f \in tp} :
                                            \A f \in tp : f.created_at <= c)]

\* relation.activo = activo (line 1536): no other column of the row is written
\* (updated_at, which no query reads, is not kept)
FilaCambiada(relation, activo, tp) == [relation EXCEPT !.activo = activo]

\* actualizar_estado_operativo_rfc (lines 1489-1566): value is the new table
\* and the outcome
actualizar_estado_operativo_rfc(tp, t, rfc, activo, limite_rfcs) ==
    IF ~ \E f \in FilasDe(tp, t) : f.rfc = rfc
    THEN [tp |-> tp, estado |-> "none"]
    ELSE
    LET relation == CHOOSE f \in FilasDe(tp, t) : f.rfc = rfc
        cambiada == (tp \ {relation}) \cup {FilaCambiada(relation, activo, tp)}
    IN IF activo /\ ~ relation.activo
       THEN IF limite_rfcs = NULL
            THEN [tp |-> tp, estado |-> "none"]      \* TypeError, caught: None
            ELSE IF Cardinality(ActivosDe(tp, t)) >= LimiteBurst(limite_rfcs)
                 THEN [tp |-> tp, estado |-> "burst"] \* ValueError
                 ELSE [tp |-> cambiada, estado |-> "ok"]
       ELSE [tp |-> cambiada, estado |-> "ok"]

\* delete_by_tenant_and_rfc (eliminar_proveedor): a true delete
delete_by_tenant_and_rfc(tp, t, rfc) ==
    {f \in tp : ~ (f.tenant_id = t /\ f.rfc = rfc)}

\* ------------------------------------------------------------- directories
\* the populated snapshots: RFCs 1, 5, .. are in both directories (in the
\* Gazette through two articles) with statuses that differ from the Supplier
\* Directory's, 2, 6, .. in the Supplier Directory only, 3, 7, .. in neither,
\* 4, 8, .. in the Gazette only
SatPoblado == [r \in Rfcs |-> CASE r % 4 = 1 -> "Definitivo"
                                [] r % 4 = 2 -> "Presunto"
                                [] OTHER -> ""]
DofPoblado == {[rfc |-> r, dof_articulo_id |-> a,
                situacion |-> IF a = 1 THEN "Presunto" ELSE "Desvirtuado"]
                  : r \in {x \in Rfcs : x % 4 = 1}, a \in {1, 2}}
              \cup {[rfc |-> r, dof_articulo_id |-> 1, situacion |-> "Definitivo"]
                  : r \in {x \in Rfcs : x % 4 = 0}}
SatVacio == [r \in Rfcs |-> ""]

\* _obtener_version_sat: the fecha_lista of any row, "No disponible" without rows
obtener_version_sat(sat) ==
    IF \E r \in DOMAIN sat : sat[r] # "" THEN "fecha_lista" ELSE "No disponible"

\* rfc.upper().strip()
NormalizarRfc(crudo) == crudo % FormaCruda

\* sorted(set(...)): the ascending list of a set of RFCs
RECURSIVE Sorted(_)
Sorted(S) ==
    IF S = {} THEN <<>>
    ELSE LET m == CHOOSE x \in S : \A y \in S : x <= y
         IN <<m>> \o Sorted(S \ {m})

\* the query without its ORDER BY: the rows in any order
OrderBySinOrden(filas) ==
    LET n == Cardinality(filas) IN
    {o \in [1..n -> filas] : \A i, j \in 1..n : i # j => o[i] # o[j]}

\* ORDER BY created_at ASC: every order of the rows that is ascending in
\* created_at (rows with equal created_at come in any order)
OrderByCreatedAt(filas) ==
    LET n == Cardinality(filas) IN
    {o \in [1..n -> filas] :
        /\ \A i, j \in 1..n : i # j => o[i] # o[j]
        /\ \A i, j \in 1..n : i < j => o[i].created_at <= o[j].created_at}

\* .limit(limite_rfcs): LIMIT NULL is no limit
Limit(o, limite_rfcs) ==
    IF limite_rfcs = NULL THEN o ELSE SubSeq(o, 1, Min(limite_rfcs, Len(o)))

\* the details of an inner join: only the RFCs the Supplier Directory has
DetallesSatInnerJoin(rfcs_tenant, sat) ==
    LET hallados == SelectSeq(rfcs_tenant, LAMBDA r : sat[r] # "") IN
    [k \in 1..Len(hallados) |-> [rfc |-> hallados[k], estado |-> sat[hallados[k]]]]

\* the detail dictionaries of realizar_conciliacion (lines 335-367): the outer
\* join gives the SAT status, a missing or empty one is "No encontrado"
DetallesSat(rfcs_tenant, sat) ==
    [k \in 1..Len(rfcs_tenant) |->
        [rfc |-> rfcs_tenant[k],
         estado |-> IF sat[rfcs_tenant[k]] # "" THEN sat[rfcs_tenant[k]]
                    ELSE NoEncontrado]]

\* every detail counted as a match
ContarTodos(detalles_dict) == Len(detalles_dict)

\* proveedores_encontrados of realizar_conciliacion: estado != "No encontrado"
ContarEncontrados(detalles_dict) ==
    Cardinality({k \in 1..Len(detalles_dict) : detalles_dict[k].estado # NoEncontrado})

\* the two directories consulted in the opposite order
DetallesSatPrimero(rfcs_list, dof_dict, sat) ==
    [k \in 1..Len(rfcs_list) |->
        LET rfc == rfcs_list[k] IN
        [rfc |-> rfc,
         estado |-> IF sat[rfc] # "" THEN sat[rfc]
                    ELSE IF rfc \in DOMAIN dof_dict THEN dof_dict[rfc]
                    ELSE NoEncontrado]]

\* the detail dictionaries of realizar_conciliacion_dof_proveedores (lines
\* 489-566): dof_dict first, proveedores_dict only for RFCs not in the Gazette
DetallesDof(rfcs_list, dof_dict, sat) ==
    [k \in 1..Len(rfcs_list) |->
        LET rfc == rfcs_list[k] IN
        [rfc |-> rfc,
         estado |-> IF rfc \in DOMAIN dof_dict THEN dof_dict[rfc]
                    ELSE IF sat[rfc] # "" THEN sat[rfc]
                    ELSE NoEncontrado]]

\* proveedores_encontrados of the DOF variant: counted by the directory hit
ContarEncontradosDof(rfcs_list, dof_dict, sat) ==
    Cardinality({k \in 1..Len(rfcs_list) :
                    rfcs_list[k] \in DOMAIN dof_dict \/ sat[rfcs_list[k]] # ""})

\* {rfc: situacion for rfc, situacion in dof_results}: one status per RFC of
\* the list that has Gazette rows; with several rows the last one read wins
DofDicts(rfcs_list, dof) ==
    LET en_dof == {r \in Rango(rfcs_list) : \E c \in dof : c.rfc = r} IN
    {d \in [en_dof -> {c.situacion : c \in dof}] :
        \A r \in en_dof : \E c \in dof : c.rfc = r /\ c.situacion = d[r]}

\* detail rows for the RFCs of the list that are active memberships only
DetallesSoloActivos(rfcs_norm, sat) ==
    LET activos == SelectSeq(rfcs_norm,
                      LAMBDA r : \E f \in tenant_proveedores : f.rfc = r /\ f.activo)
    IN [k \in 1..Len(activos) |->
          [rfc |-> activos[k],
           estado |-> IF activos[k] \in DOMAIN sat /\ sat[activos[k]] # ""
                      THEN sat[activos[k]] ELSE NoEncontrado]]

\* the detail rows of conciliar_rfcs_especificos (lines 1148-1159)
DetallesEspecificos(rfcs_norm, sat) ==
    [k \in 1..Len(rfcs_norm) |->
        [rfc |-> rfcs_norm[k],
         estado |-> IF rfcs_norm[k] \in DOMAIN sat /\ sat[rfcs_norm[k]] # ""
                    THEN sat[rfcs_norm[k]] ELSE NoEncontrado]]

\* coincidencias of conciliar_rfcs_especificos: len(proveedores_sat), the rows
\* of the Supplier Directory whose rfc is in the list
ContarFilasSat(rfcs_norm, sat) ==
    Cardinality({r \in DOMAIN sat : sat[r] # "" /\ r \in Rango(rfcs_norm)})

\* ConciliacionHistorial(...) as the three functions build it
NuevoHistorial(id, t, tipo, version_sat, rfcs_procesados, coincidencias) ==
    [id |-> id, tenant_id |-> t, tipo_conciliacion |-> tipo,
     version_sat |-> version_sat, rfcs_procesados |-> rfcs_procesados,
     coincidencias |-> coincidencias, estado |-> "completado", duracion_ms |-> 0]

\* detail rows referencing the run
ConId(detalles_dict, historial_id) ==
    [k \in 1..Len(detalles_dict) |->
        [conciliacion_id |-> historial_id, rfc |-> detalles_dict[k].rfc,
         estado |-> detalles_dict[k].estado]]

\* the measured duration patched onto the run (int(round(total_time * 1000)))
DuracionMedida == 1

\* ------------------------------------------------------------ request state
SinSesion == [historial |-> {}, detalles |-> <<>>]
SinReq == [op |-> "none"]
SinFlota == [activa |-> FALSE]
SinRespuesta == [op |-> "none"]

TenantsDe == DOMAIN planes

\* a behaviour is followed until every tenant had MaxCorridas runs
Abierto == reloj.corrida < MaxCorridas * Cardinality(TenantsDe)

\* --------------------------------------------------- membership operations
\* POST /agregar-proveedor
agregar_proveedor(t, lote) ==
    /\ pc = "idle" /\ ~ flota.activa /\ Abierto
    /\ reloj.id + Len(lote) <= reloj.max_id
    /\ \E paso \in reloj.pasos, razon \in reloj.razones :
         LET r == agregar_proveedores_batch(tenant_proveedores, t, lote,
                                            planes[t], reloj, paso, razon)
         IN /\ tenant_proveedores' = r.tp
            /\ reloj' = RelojTras(reloj, tenant_proveedores, r.tp)
            /\ ultimo' = [op |-> "agregar_proveedor", tenant |-> t, lote |-> lote,
                          estado |-> r.estado, resultados |-> r.resultados]
    /\ UNCHANGED <<transacciones, ordenes, planes, conciliacion_historial, resultado_conciliaciones,
                   proveedores, dof_contribuyentes, sesion, pc, req, flota, seleccion>>

\* POST /agregar-proveedor-archivo
agregar_proveedor_archivo(t, lote) ==
    /\ pc = "idle" /\ ~ flota.activa /\ Abierto
    /\ reloj.id + Len(lote) <= reloj.max_id
    /\ \E paso \in reloj.pasos, razon \in reloj.razones :
         LET r == agregar_proveedores_batch_con_datos(tenant_proveedores, t, lote,
                                                      planes[t], reloj, paso, razon)
         IN /\ tenant_proveedores' = r.tp
            /\ reloj' = RelojTras(reloj, tenant_proveedores, r.tp)
            /\ ultimo' = [op |-> "agregar_proveedor_archivo", tenant |-> t, lote |-> lote,
                          estado |-> r.estado, resultados |-> r.resultados]
    /\ UNCHANGED <<transacciones, ordenes, planes, conciliacion_historial, resultado_conciliaciones,
                   proveedores, dof_contribuyentes, sesion, pc, req, flota, seleccion>>

\* PUT estado operativo of one RFC
actualizar_estado_rfc(t, rfc, activo) ==
    /\ pc = "idle" /\ ~ flota.activa /\ Abierto
    /\ LET r == actualizar_estado_operativo_rfc(tenant_proveedores, t, rfc,
                                                activo, planes[t])
       IN /\ tenant_proveedores' = r.tp
          /\ ultimo' = [op |-> "actualizar_estado_rfc", tenant |-> t,
                        rfc |-> rfc, activo |-> activo, estado |-> r.estado]
    /\ UNCHANGED <<transacciones, ordenes, planes, conciliacion_historial, resultado_conciliaciones,
                   proveedores, dof_contribuyentes, sesion, pc, req, flota, reloj, seleccion>>

\* update_grupo (lines 369-401) as actualizar_grupo_rfc calls it: the group of
\* an existing membership is set (NULL: removed)
update_grupo(tp, t, rfc, grupo_id) ==
    {IF f.tenant_id = t /\ f.rfc = rfc THEN [f EXCEPT !.grupo_id = grupo_id] ELSE f
        : f \in tp}

\* PUT /rfcs/{rfc}/grupo
asignar_grupo_rfc(t, rfc, grupo_id) ==
    /\ pc = "idle" /\ ~ flota.activa /\ Abierto
    /\ tenant_proveedores' = update_grupo(tenant_proveedores, t, rfc, grupo_id)
    /\ ultimo' = [op |-> "asignar_grupo_rfc", tenant |-> t, rfc |-> rfc,
                  estado |-> IF \E f \in FilasDe(tenant_proveedores, t) : f.rfc = rfc
                             THEN "ok" ELSE "none"]
    /\ UNCHANGED <<transacciones, ordenes, planes, conciliacion_historial, resultado_conciliaciones,
                   proveedores, dof_contribuyentes, sesion, pc, req, flota, reloj, seleccion>>

\* DELETE /proveedores/{rfc}
eliminar_proveedor(t, rfc) ==
    /\ pc = "idle" /\ ~ flota.activa /\ Abierto
    /\ \E f \in FilasDe(tenant_proveedores, t) : f.rfc = rfc
    /\ tenant_proveedores' = delete_by_tenant_and_rfc(tenant_proveedores, t, rfc)
    /\ ultimo' = [op |-> "eliminar_proveedor", tenant |-> t, estado |-> "ok"]
    /\ UNCHANGED <<transacciones, ordenes, planes, conciliacion_historial, resultado_conciliaciones,
                   proveedores, dof_contribuyentes, sesion, pc, req, flota, reloj, seleccion>>

\* update_tenant with a plan_id: the tenant moves to a plan with another limit
update_tenant(t, limite) ==
    /\ pc = "idle" /\ ~ flota.activa /\ Abierto
    /\ limite # planes[t]
    /\ planes' = [planes EXCEPT ![t] = limite]
    /\ ultimo' = [op |-> "update_tenant", tenant |-> t, estado |-> "ok"]
    /\ UNCHANGED <<transacciones, ordenes, tenant_proveedores, conciliacion_historial,
                   resultado_conciliaciones, proveedores, dof_contribuyentes,
                   sesion, pc, req, flota, reloj, seleccion>>

\* ------------------------------------------------- reconciliation requests
\* session.add(historial) + session.flush(): the run row is pending in the
\* session's transaction and the request goes on to insert the details
IniciarCorrida(op, llamador, t, rfcs, historial, detalles_dict, orden) ==
    /\ sesion' = [sesion EXCEPT !.historial = @ \cup {historial}]
    /\ req' = [op |-> op, llamador |-> llamador, tenant |-> t,
               historial_id |-> historial.id, detalles_dict |-> detalles_dict,
               error |-> "", orden |-> orden]
    /\ pc' = "historial"
    /\ reloj' = [reloj EXCEPT !.corrida = historial.id]
    /\ seleccion' = [c \in DOMAIN seleccion \cup {historial.id} |->
                        IF c = historial.id THEN rfcs ELSE seleccion[c]]

\* an exception before anything was added to the session
FallarAntes(op, llamador, t, error, orden) ==
    /\ req' = [op |-> op, llamador |-> llamador, tenant |-> t,
               historial_id |-> 0, detalles_dict |-> <<>>, error |-> error,
               orden |-> orden]
    /\ pc' = "error"
    /\ UNCHANGED <<sesion, reloj, seleccion>>

\* a resolution that reads an unlimited plan as a plan for nothing
LimiteCeroSinLimite(plan) == IF plan \in {SinPlan, NULL} THEN 0 ELSE plan

\* limite_rfcs = tenant.plan.limite_proveedores if tenant.plan else 0 (lines
\* 313 and 465): NULL, the limit of an unlimited plan, is passed on as it is
LimiteDelPlan(plan) == IF plan = SinPlan THEN 0 ELSE plan

\* realizar_conciliacion up to the flush of the run row (lines 295-390)
realizar_conciliacion(t, llamador, tipo) ==
    /\ pc = "idle"
    /\ \/ \E o \in OrderByCreatedAt(ActivosDe(tenant_proveedores, t)) :
            LET resultados == Limit(o, LimiteDelPlan(planes[t]))
                rfcs_tenant == [k \in 1..Len(resultados) |-> resultados[k].rfc]
                detalles_dict == DetallesSat(rfcs_tenant, proveedores)
                historial == NuevoHistorial(reloj.corrida + 1, t, tipo,
                                 obtener_version_sat(proveedores),
                                 Len(resultados), ContarEncontrados(detalles_dict))
            IN IniciarCorrida("realizar_conciliacion", llamador, t, rfcs_tenant,
                              historial, detalles_dict, 0)
       \/ FallarAntes("realizar_conciliacion", llamador, t, "excepcion", 0)
    /\ ultimo' = IF llamador = "flota" THEN ultimo ELSE SinRespuesta
    /\ UNCHANGED <<transacciones, ordenes, planes, tenant_proveedores, conciliacion_historial,
                   resultado_conciliaciones, proveedores, dof_contribuyentes,
                   flota>>

\* a runner that reconciles an empty list
NuncaSinProveedores(rfcs_list) == FALSE

\* total_proveedores == 0 (lines 481-485)
SinProveedores(rfcs_list) == Len(rfcs_list) = 0

\* realizar_conciliacion_dof_proveedores up to the flush of the run row
\* (lines 450-589)
realizar_conciliacion_dof_proveedores(t, llamador, tipo) ==
    /\ pc = "idle"
    /\ \/ \E o \in OrderByCreatedAt(ActivosDe(tenant_proveedores, t)) :
            LET rfcs_tenant == Limit(o, LimiteDelPlan(planes[t]))
                rfcs_list == [k \in 1..Len(rfcs_tenant) |-> rfcs_tenant[k].rfc]
            IN IF SinProveedores(rfcs_list)
               THEN FallarAntes("realizar_conciliacion_dof_proveedores", llamador,
                                t, "No hay proveedores para conciliar", 0)
               ELSE \E dof_dict \in DofDicts(rfcs_list, dof_contribuyentes) :
                      LET detalles_dict == DetallesDof(rfcs_list, dof_dict, proveedores)
                          historial == NuevoHistorial(reloj.corrida + 1, t, tipo,
                                obtener_version_sat(proveedores), Len(rfcs_list),
                                ContarEncontradosDof(rfcs_list, dof_dict, proveedores))
                      IN IniciarCorrida("realizar_conciliacion_dof_proveedores",
                                        llamador, t, rfcs_list, historial,
                                        detalles_dict, 0)
       \/ FallarAntes("realizar_conciliacion_dof_proveedores", llamador, t,
                      "excepcion", 0)
    /\ ultimo' = IF llamador = "flota" THEN ultimo ELSE SinRespuesta
    /\ UNCHANGED <<transacciones, ordenes, planes, tenant_proveedores, conciliacion_historial,
                   resultado_conciliaciones, proveedores, dof_contribuyentes,
                   flota>>

\* the list accepted whatever it holds
NuncaVacia(rfcs_norm) == FALSE

\* if not rfcs_norm (line 1113)
ListaVacia(rfcs_norm) == rfcs_norm = <<>>

\* conciliar_rfcs_especificos up to the flush of the run row (lines 1107-1146),
\* called by procesar_pago_exitoso with the RFC list of the paid order (orden
\* is the id of that order, 0 for a call without one)
conciliar_rfcs_especificos(t, rfcs, orden) ==
    /\ pc = "idle" /\ ~ flota.activa /\ Abierto
    /\ LET rfcs_norm == Sorted({NormalizarRfc(r) : r \in Rango(rfcs)}) IN
       IF ListaVacia(rfcs_norm)
       THEN FallarAntes("conciliar_rfcs_especificos", "pago", t,
                        "La lista de RFCs no puede estar vacia", orden)
       ELSE LET historial ==
                  [NuevoHistorial(reloj.corrida + 1, t, "Excedentes - Pago",
                        obtener_version_sat(proveedores), Len(rfcs_norm),
                        ContarFilasSat(rfcs_norm, proveedores))
                   EXCEPT !.duracion_ms = DuracionMedida]
            IN IniciarCorrida("conciliar_rfcs_especificos", "pago", t, rfcs_norm,
                              historial, DetallesEspecificos(rfcs_norm, proveedores),
                              orden)
    /\ ultimo' = SinRespuesta
    /\ UNCHANGED <<transacciones, planes, tenant_proveedores, conciliacion_historial,
                   resultado_conciliaciones, proveedores, dof_contribuyentes,
                   flota>>

\* bulk_insert_mappings + flush of all detail rows (lines 392-403, 591-602,
\* create_bulk)
insertar_detalles ==
    /\ pc = "historial"
    /\ sesion' = [sesion EXCEPT !.detalles =
                     @ \o ConId(req.detalles_dict, req.historial_id)]
    /\ pc' = "detalles"
    /\ UNCHANGED <<transacciones, ordenes, planes, tenant_proveedores, conciliacion_historial,
                   resultado_conciliaciones, proveedores, dof_contribuyentes,
                   req, flota, ultimo, reloj, seleccion>>

\* an exception after the run row was flushed: before the insert of the
\* details or while it runs (k of the rows were sent)
falla_detalles ==
    /\ pc = "historial"
    /\ \E k \in 0..Max(0, Len(req.detalles_dict) - 1) :
         sesion' = [sesion EXCEPT !.detalles =
                       @ \o SubSeq(ConId(req.detalles_dict, req.historial_id), 1, k)]
    /\ pc' = "error"
    /\ req' = [req EXCEPT !.error = "excepcion"]
    /\ UNCHANGED <<transacciones, ordenes, planes, tenant_proveedores, conciliacion_historial,
                   resultado_conciliaciones, proveedores, dof_contribuyentes,
                   flota, ultimo, reloj, seleccion>>

\* an exception after the details were flushed (up to and in the commit)
falla_commit ==
    /\ pc = "detalles"
    /\ pc' = "error"
    /\ req' = [req EXCEPT !.error = "excepcion"]
    /\ UNCHANGED <<transacciones, ordenes, planes, tenant_proveedores, conciliacion_historial,
                   resultado_conciliaciones, proveedores, dof_contribuyentes,
                   sesion, flota, ultimo, reloj, seleccion>>

\* the run row as it is committed: realizar_conciliacion* patch the duration
\* onto it before they return (lines 411-414, 613-616)
ConDuracion(h) == [h EXCEPT !.duracion_ms = DuracionMedida]

\* the entries of the fleet runner's result list (lines 1241-1247, 1262-1268)
ItemExito(h) ==
    [tenant_id |-> h.tenant_id, rfcs_procesados |-> h.rfcs_procesados,
     coincidencias |-> h.coincidencias, estado |-> h.estado,
     historial_id |-> h.id]
ItemSinError(t, error) ==
    [tenant_id |-> t, rfcs_procesados |-> 0, coincidencias |-> 0,
     estado |-> "completado", historial_id |-> NULL]
ItemError(t, error) ==
    [tenant_id |-> t, rfcs_procesados |-> 0, coincidencias |-> 0,
     estado |-> "error: " \o error, historial_id |-> NULL]

\* a commit that keeps only the latest run of a tenant
TrasCommitUltima(ch, ses) ==
    {h \in ch : \A x \in ses.historial : x.tenant_id # h.tenant_id}
        \cup {[x EXCEPT !.duracion_ms = DuracionMedida] : x \in ses.historial}

\* what a commit of the session makes durable
TrasCommitHistorial(ch, ses) == ch \cup {ConDuracion(x) : x \in ses.historial}
\* the detail rows written outside the transaction of the run row
DetallesAparte(rc, ses) == rc
TrasCommitDetalles(rc, ses) == rc \o ses.detalles

\* the order marked without the id of its run
marcar_sin_corrida(ord, orden, conciliacion_id) ==
    IF orden = 0 THEN ord
    ELSE [ord EXCEPT ![orden].conciliado = TRUE]

\* marcar_como_conciliada (orden_pago_repository.py lines 146-167), pending
\* until the commit that follows it; a call without an order marks nothing
marcar_como_conciliada(ord, orden, conciliacion_id) ==
    IF orden = 0 THEN ord
    ELSE [ord EXCEPT ![orden].conciliado = TRUE,
                     ![orden].conciliacion_id = conciliacion_id]

\* the outcomes of _enviar_correo_conciliacion (lines 1568-1638): the report
\* was sent, there was nobody to send it to, or the step raised
Correos == {"enviado", "sin destinatarios", "error de correo"}

\* the exception of the notification step reaching the tenant's handler
correo_propaga(correo) == correo # "error de correo"

\* the fleet runner's try / except around the notification step (lines
\* 1222-1234, 1341-1353): its exception is logged and the tenant's iteration
\* goes on to report the success
correo_no_falla(correo) == TRUE

\* the function returns and its caller commits: db.commit() in the route
\* (line 374), session.commit() in the fleet runner (lines 1219, 1338), which
\* then runs the notification step and appends the tenant's entry, and in
\* procesar_pago_exitoso (line 81)
commit ==
    /\ pc = "detalles"
    /\ LET h == CHOOSE x \in sesion.historial : x.id = req.historial_id IN
       /\ conciliacion_historial' = TrasCommitHistorial(conciliacion_historial, sesion)
       /\ resultado_conciliaciones' = TrasCommitDetalles(resultado_conciliaciones, sesion)
       /\ ordenes' = marcar_como_conciliada(ordenes, req.orden, h.id)
       /\ IF req.llamador = "flota"
          THEN /\ \E correo \in Correos :
                    LET exito == correo_no_falla(correo) IN
                    flota' = [flota EXCEPT
                       !.resultados = Append(@, IF exito THEN ItemExito(h)
                                                ELSE ItemError(req.tenant, correo)),
                       !.total_exitosos = @ + (IF exito THEN 1 ELSE 0),
                       !.total_fallidos = @ + (IF exito THEN 0 ELSE 1),
                       !.i = @ + 1,
                       !.correo = correo]
               /\ UNCHANGED ultimo
          ELSE /\ ultimo' = [op |-> req.op, tenant |-> req.tenant,
                             estado |-> "completado", historial_id |-> h.id,
                             rfcs_procesados |-> h.rfcs_procesados,
                             coincidencias |-> h.coincidencias]
               /\ UNCHANGED flota
    /\ sesion' = SinSesion
    /\ pc' = "idle"
    /\ req' = SinReq
    /\ UNCHANGED <<transacciones, planes, tenant_proveedores, proveedores, dof_contribuyentes,
                   reloj, seleccion>>

\* the handler without its rollback
SinRollback(ses) == ses

\* what a rollback leaves of the session's pending work
TrasRollback(ses) == SinSesion

\* the "success" of the answer to a failed reconciliation: the inner except of
\* procesar_pago_exitoso answers success with a warning (orden_pago_service.py
\* lines 92-101), a route answers with an HTTP error
pago_con_aviso(orden) == orden # 0

\* the caller's rollback after an exception: db.rollback() in the route (line
\* 387), session.rollback() in the fleet runner (lines 1258, 1377) and in
\* create_bulk, the close of the session after procesar_pago_exitoso
rollback ==
    /\ pc = "error"
    /\ sesion' = TrasRollback(sesion)
    /\ IF req.llamador = "flota"
       THEN /\ flota' = [flota EXCEPT
                           !.resultados = Append(@, ItemError(req.tenant, req.error)),
                           !.total_fallidos = @ + 1,
                           !.i = @ + 1,
                           !.correo = "ninguno"]
            /\ UNCHANGED ultimo
       ELSE /\ ultimo' = [op |-> req.op, tenant |-> req.tenant, estado |-> "error",
                          historial_id |-> req.historial_id,
                          rfcs_procesados |-> 0, coincidencias |-> 0,
                          success |-> pago_con_aviso(req.orden)]
            /\ UNCHANGED flota
    /\ pc' = "idle"
    /\ req' = SinReq
    /\ UNCHANGED <<transacciones, ordenes, planes, tenant_proveedores, conciliacion_historial,
                   resultado_conciliaciones, proveedores, dof_contribuyentes,
                   reloj, seleccion>>

\* ------------------------------------------------------- payment orders
\* get_by_tenant_excedentes: the active memberships after the first limite in
\* created_at order (offset(None) skips none)
get_by_tenant_excedentes(o, limite) ==
    IF limite = NULL THEN o
    ELSE SubSeq(o, Min(limite, Len(o)) + 1, Len(o))

\* obtener_rfcs_pagados: the RFCs of the tenant's orders in estado "pagado"
obtener_rfcs_pagados(ord, t) ==
    UNION {Rango(ord[i].rfcs) : i \in {j \in DOMAIN ord :
              ord[j].tenant_id = t /\ ord[j].estado = "pagado"}}

\* POST crear_orden_excedentes: the order is created pending when every
\* requested RFC is an excess RFC that no paid order holds; Stripe's checkout
\* session may or may not carry a payment intent yet
crear_orden_excedentes(t, rfcs, con_intent) ==
    /\ pc = "idle" /\ ~ flota.activa /\ Abierto
    /\ Len(ordenes) < MaxOrdenes
    /\ rfcs # <<>>
    /\ \E o \in OrderByCreatedAt(ActivosDe(tenant_proveedores, t)) :
         LET excedentes == get_by_tenant_excedentes(o, planes[t])
             rfcs_solicitados == [k \in 1..Len(rfcs) |-> NormalizarRfc(rfcs[k])]
         IN /\ Rango(rfcs_solicitados) \subseteq {excedentes[k].rfc : k \in 1..Len(excedentes)}
            /\ Rango(rfcs_solicitados) \cap obtener_rfcs_pagados(ordenes, t) = {}
            /\ ordenes' = Append(ordenes,
                    [tenant_id |-> t, rfcs |-> rfcs_solicitados,
                     estado |-> "pendiente", conciliado |-> FALSE,
                     conciliacion_id |-> NULL, payment_intent |-> con_intent])
    /\ ultimo' = [op |-> "crear_orden_excedentes", tenant |-> t, estado |-> "ok"]
    /\ UNCHANGED <<transacciones, planes, tenant_proveedores, conciliacion_historial,
                   resultado_conciliaciones, proveedores, dof_contribuyentes,
                   sesion, pc, req, flota, reloj, seleccion>>

\* marcar_como_pagada + actualizar_stripe_info, committed (line 63)
marcar_como_pagada(ord, orden, con_intent) ==
    [ord EXCEPT ![orden].estado = "pagado",
                ![orden].payment_intent = @ \/ con_intent]

\* procesar_pago_exitoso for the event checkout.session.completed of an order:
\* the order is marked paid and committed, then its RFCs are reconciled; the
\* run, its details and the mark on the order are committed together later
procesar_pago_exitoso(orden, con_intent) ==
    /\ orden \in DOMAIN ordenes
    /\ ordenes' = marcar_como_pagada(ordenes, orden, con_intent)
    /\ conciliar_rfcs_especificos(ordenes[orden].tenant_id, ordenes[orden].rfcs,
                                  orden)

\* procesar_pago_fallido for the event payment_intent.payment_failed: the
\* order that holds the payment intent is set to "fallido" and committed
procesar_pago_fallido(orden) ==
    /\ pc = "idle" /\ ~ flota.activa
    /\ orden \in DOMAIN ordenes
    /\ IF ordenes[orden].payment_intent
       THEN /\ ordenes' = [ordenes EXCEPT ![orden].estado = "fallido"]
            /\ ultimo' = [op |-> "procesar_pago_fallido", orden |-> orden,
                          estado |-> "payment_failed"]
       ELSE /\ ordenes' = ordenes
            /\ ultimo' = [op |-> "procesar_pago_fallido", orden |-> orden,
                          estado |-> "orden_no_encontrada"]
    /\ UNCHANGED <<transacciones, planes, tenant_proveedores, conciliacion_historial,
                   resultado_conciliaciones, proveedores, dof_contribuyentes,
                   sesion, pc, req, flota, reloj, seleccion>>

\* POST /realizar-conciliacion
ruta_realizar_conciliacion(t) ==
    ~ flota.activa /\ Abierto /\ realizar_conciliacion(t, "ruta", "Manual")

\* ------------------------------------------------------------ fleet runner
\* realizar_conciliacion_todos_tenants / realizar_conciliacion_dof_todos_tenants:
\* get_active_tenants (a query without ORDER BY) and the counters before the loop
todos_tenants(tipo) ==
    /\ pc = "idle"
    /\ ~ flota.activa
    /\ reloj.corrida + Cardinality(TenantsDe) <= MaxCorridas * Cardinality(TenantsDe)
    /\ \E tenants \in {o \in [1..Cardinality(TenantsDe) -> TenantsDe] :
                         \A i, j \in DOMAIN o : i # j => o[i] # o[j]} :
         flota' = [activa |-> TRUE, tipo |-> tipo, tenants |-> tenants, i |-> 1,
                   resultados |-> <<>>, total_exitosos |-> 0, total_fallidos |-> 0,
                   correo |-> "ninguno"]
    /\ ultimo' = SinRespuesta
    /\ UNCHANGED <<transacciones, ordenes, planes, tenant_proveedores, conciliacion_historial,
                   resultado_conciliaciones, proveedores, dof_contribuyentes,
                   sesion, pc, req, reloj, seleccion>>

\* one iteration of the loop starts the reconciliation of the next tenant
flota_tenant ==
    /\ flota.activa
    /\ flota.i <= Len(flota.tenants)
    /\ IF flota.tipo = "Automatica"
       THEN realizar_conciliacion(flota.tenants[flota.i], "flota", "Automatica")
       ELSE realizar_conciliacion_dof_proveedores(flota.tenants[flota.i],
                                                  "flota", "DOF + SAT")

\* the loop is over: the aggregate is returned
flota_fin ==
    /\ pc = "idle"
    /\ flota.activa
    /\ flota.i > Len(flota.tenants)
    /\ ultimo' = [op |-> "todos_tenants", tipo |-> flota.tipo,
                  total_tenants |-> Len(flota.tenants),
                  total_procesados |-> Len(flota.resultados),
                  total_exitosos |-> flota.total_exitosos,
                  total_fallidos |-> flota.total_fallidos,
                  resultados |-> flota.resultados]
    /\ flota' = SinFlota
    /\ UNCHANGED <<transacciones, ordenes, planes, tenant_proveedores, conciliacion_historial,
                   resultado_conciliaciones, proveedores, dof_contribuyentes,
                   sesion, pc, req, reloj, seleccion>>

\* ------------------------------------------- membership requests in parallel
\* every request has a session of its own (get_db) on an engine at READ
\* COMMITTED: what a request reads is the committed table at the time of the
\* read, what it writes is decided by what it read
Procesos == 1..NumProcesos
SinTransaccion == [op |-> "none"]

\* the insert of the rows of one request into the committed table: a row of
\* an RFC another request committed meanwhile violates uq_tenant_proveedor,
\* the IntegrityError is caught and nothing is created (lines 279-286)
EscribirFilas(tp, creadas) ==
    IF uq_tenant_proveedor(tp \cup creadas) THEN tp \cup creadas ELSE tp

\* agregar_proveedores_batch up to its reads: the count of the active
\* memberships and the memberships held of the batch (lines 83-95)
batch_contar(p, t, lote) ==
    /\ transacciones[p] = SinTransaccion
    /\ transacciones' = [transacciones EXCEPT ![p] =
            [op |-> "agregar_proveedor", tenant |-> t, lote |-> lote,
             limite_rfcs |-> planes[t], visto |-> tenant_proveedores]]
    /\ UNCHANGED <<ordenes, planes, tenant_proveedores, conciliacion_historial,
                   resultado_conciliaciones, proveedores, dof_contribuyentes,
                   sesion, pc, req, flota, ultimo, reloj, seleccion>>

\* agregar_proveedores_batch from its decision loop to the commit of the route
\* (lines 97-166, conciliacion_routes.py line 152)
batch_commit(p) ==
    /\ transacciones[p].op = "agregar_proveedor"
    /\ LET tx == transacciones[p]
           r == agregar_proveedores_batch(tx.visto, tx.tenant, tx.lote,
                                          tx.limite_rfcs, reloj, 1, SinRazon)
           creadas == {f \in r.tp : \A g \in tx.visto : g.id # f.id}
           escritas == EscribirFilas(tenant_proveedores, creadas)
       IN /\ tenant_proveedores' = escritas
          /\ reloj' = RelojTras(reloj, tenant_proveedores, escritas)
          /\ ultimo' = [op |-> "agregar_proveedor", tenant |-> tx.tenant,
                        lote |-> tx.lote,
                        estado |-> IF creadas \subseteq escritas
                                   THEN r.estado ELSE "error",
                        resultados |-> r.resultados]
    /\ transacciones' = [transacciones EXCEPT ![p] = SinTransaccion]
    /\ UNCHANGED <<ordenes, planes, conciliacion_historial, resultado_conciliaciones,
                   proveedores, dof_contribuyentes, sesion, pc, req, flota, seleccion>>

\* actualizar_estado_operativo_rfc with activo = true up to its reads: the
\* membership and the count of the active memberships (lines 1505-1530)
activar_contar(p, t, rfc) ==
    /\ transacciones[p] = SinTransaccion
    /\ transacciones' = [transacciones EXCEPT ![p] =
            [op |-> "actualizar_estado_rfc", tenant |-> t, rfc |-> rfc,
             limite_rfcs |-> planes[t], visto |-> tenant_proveedores]]
    /\ UNCHANGED <<ordenes, planes, tenant_proveedores, conciliacion_historial,
                   resultado_conciliaciones, proveedores, dof_contribuyentes,
                   sesion, pc, req, flota, ultimo, reloj, seleccion>>

\* actualizar_estado_operativo_rfc from its check to its commit (lines
\* 1532-1549): the membership it read is written as active
activar_commit(p) ==
    /\ transacciones[p].op = "actualizar_estado_rfc"
    /\ LET tx == transacciones[p]
           r == actualizar_estado_operativo_rfc(tx.visto, tx.tenant, tx.rfc,
                                                TRUE, tx.limite_rfcs)
           hecha == r.estado = "ok"
                    /\ \E f \in FilasDe(tx.visto, tx.tenant) : f.rfc = tx.rfc
       IN /\ tenant_proveedores' =
                IF hecha
                THEN {IF f.tenant_id = tx.tenant /\ f.rfc = tx.rfc
                      THEN [f EXCEPT !.activo = TRUE] ELSE f
                        : f \in tenant_proveedores}
                ELSE tenant_proveedores
          /\ ultimo' = [op |-> "actualizar_estado_rfc", tenant |-> tx.tenant,
                        rfc |-> tx.rfc, activo |-> TRUE, estado |-> r.estado]
    /\ transacciones' = [transacciones EXCEPT ![p] = SinTransaccion]
    /\ UNCHANGED <<ordenes, planes, conciliacion_historial, resultado_conciliaciones,
                   proveedores, dof_contribuyentes, sesion, pc, req, flota, reloj,
                   seleccion>>

\* ------------------------------------------------------ directory refresh
\* process_csv_data_from_s3_optimized (sat_processor.py lines 581-647): the
\* Supplier Directory is emptied and loaded again from the new file
process_csv_data_from_s3_optimized(sat) ==
    /\ sat # proveedores
    /\ proveedores' = sat
    /\ UNCHANGED <<transacciones, ordenes, planes, tenant_proveedores, conciliacion_historial,
                   resultado_conciliaciones, dof_contribuyentes, sesion, pc, req,
                   flota, ultimo, reloj, seleccion>>

\* procesar_dof_fecha (dof_service.py lines 30-195): a Gazette of another date
\* empties dof_contribuyentes before its articles are loaded
procesar_dof_fecha(dof) ==
    /\ dof # dof_contribuyentes
    /\ dof_contribuyentes' = dof
    /\ UNCHANGED <<transacciones, ordenes, planes, tenant_proveedores, conciliacion_historial,
                   resultado_conciliaciones, proveedores, sesion, pc, req,
                   flota, ultimo, reloj, seleccion>>

\* -------------------------------------------------------------- run details
\* the detail rows of a table that reference the run id
DetallesDe(rc, id) == SelectSeq(rc, LAMBDA d : d.conciliacion_id = id)

\* the resultado of a detail row (lines 999-1005)
ResultadoDe(estado) ==
    IF estado = NoEncontrado THEN "Sin coincidencia"
    ELSE IF estado \in {"Desvirtuado", "Sentencia Favorable"} THEN "Regularizado"
    ELSE "Coincidencia"

\* the run looked up by its id alone
HistorialPorId(ch, t, historial_id) == {h \in ch : h.id = historial_id}

\* the query of the run by id and tenant_id (lines 983-986)
HistorialDeTenant(ch, t, historial_id) ==
    {h \in ch : h.id = historial_id /\ h.tenant_id = t}

\* obtener_detalles_conciliacion (lines 971-1092) and the route's mapping of
\* its ValueError to 404 (conciliacion_routes.py lines 483-488)
obtener_detalles_conciliacion(ch, rc, t, historial_id) ==
    LET hallados == HistorialDeTenant(ch, t, historial_id) IN
    IF hallados = {}
    THEN [op |-> "obtener_detalles_conciliacion", tenant |-> t,
          historial_id |-> historial_id, estado |-> "404"]
    ELSE LET historial == CHOOSE h \in hallados : TRUE
             detalles == DetallesDe(rc, historial_id)
         IN [op |-> "obtener_detalles_conciliacion", tenant |-> t,
             historial_id |-> historial_id, estado |-> "200",
             rfcs_procesados |-> historial.rfcs_procesados,
             coincidencias |-> historial.coincidencias,
             sin_coincidencias |-> historial.rfcs_procesados - historial.coincidencias,
             duracion_ms |-> historial.duracion_ms,
             rfcs |-> [k \in 1..Len(detalles) |->
                         [rfc |-> detalles[k].rfc, estado |-> detalles[k].estado,
                          resultado |-> ResultadoDe(detalles[k].estado)]],
             execution_id |-> historial.id,
             status |-> historial.estado,
             tenant_id |-> historial.tenant_id,
             trigger_source |-> IF historial.tipo_conciliacion = "Manual"
                                THEN "manual" ELSE "automatic",
             sat_version |-> historial.version_sat]

\* GET /conciliacion-detalles/{historial_id}
ruta_obtener_detalles_conciliacion(t, historial_id) ==
    /\ pc = "idle" /\ ~ flota.activa
    /\ ultimo' = obtener_detalles_conciliacion(conciliacion_historial,
                     resultado_conciliaciones, t, historial_id)
    /\ UNCHANGED <<transacciones, ordenes, planes, tenant_proveedores, conciliacion_historial,
                   resultado_conciliaciones, proveedores, dof_contribuyentes,
                   sesion, pc, req, flota, reloj, seleccion>>

\* ---------------------------------------------------------- specifications
Lotes == SecuenciasHasta(Rfcs, MaxLote) \ {<<>>}
ListasCrudas == SecuenciasHasta(Rfcs \cup {r + FormaCruda : r \in Rfcs}, MaxLote)

\* the RFCs i..j as a batch
Tramo(i, j) == [k \in 1..(j - i + 1) |-> i + k - 1]

\* the memberships of a tenant that added the RFCs 1..n one by one while its
\* plan had room for all of them
AlmacenDe(t, n) ==
    {[id |-> (t - 1) * MaxRfc + r, tenant_id |-> t, rfc |-> r, activo |-> TRUE,
      created_at |-> r, grupo_id |-> NULL, razon_social |-> SinRazon]
        : r \in 1..n}

InitTablas ==
    /\ conciliacion_historial = {}
    /\ resultado_conciliaciones = <<>>
    /\ sesion = SinSesion
    /\ pc = "idle"
    /\ req = SinReq
    /\ flota = SinFlota
    /\ ultimo = SinRespuesta
    /\ seleccion = << >>
    /\ ordenes = << >>

\* no membership request runs beside another
InitComun == InitTablas /\ transacciones = << >>

\* one tenant: every membership operation and every way into a reconciliation
Init ==
    /\ planes = [t \in {1} |-> 1]
    /\ tenant_proveedores = {}
    /\ proveedores = SatPoblado /\ dof_contribuyentes = DofPoblado
    /\ reloj = [id |-> 0, now |-> 0, corrida |-> 0, max_id |-> MaxRfc,
                pasos |-> {0, 1}, razones |-> {SinRazon}]
    /\ InitComun

Next ==
    \/ \E t \in TenantsDe, lote \in Lotes : agregar_proveedor(t, lote)
    \/ \E t \in TenantsDe, lote \in Lotes : agregar_proveedor_archivo(t, lote)
    \/ \E t \in TenantsDe, rfc \in Rfcs, activo \in BOOLEAN :
          actualizar_estado_rfc(t, rfc, activo)
    \/ \E t \in TenantsDe, rfc \in Rfcs : eliminar_proveedor(t, rfc)
    \/ \E t \in TenantsDe, limite \in Limites : update_tenant(t, limite)
    \/ \E t \in TenantsDe : ruta_realizar_conciliacion(t)
    \/ \E t \in TenantsDe, rfcs \in ListasCrudas :
          conciliar_rfcs_especificos(t, rfcs, 0) /\ UNCHANGED ordenes
    \/ \E tipo \in {"Automatica", "DOF + SAT"} : todos_tenants(tipo)
    \/ flota_tenant
    \/ flota_fin
    \/ insertar_detalles
    \/ falla_detalles
    \/ falla_commit
    \/ commit
    \/ rollback

Spec == Init /\ [][Next]_vars

\* several tenants that only add
InitAltas ==
    /\ planes = [t \in Tenants |-> 1]
    /\ tenant_proveedores = {}
    /\ proveedores = SatPoblado /\ dof_contribuyentes = DofPoblado
    /\ reloj = [id |-> 0, now |-> 0, corrida |-> 0,
                max_id |-> NumTenants * MaxRfc, pasos |-> {1}, razones |-> {SinRazon}]
    /\ InitComun

NextAltas ==
    \/ \E t \in TenantsDe, lote \in Lotes : agregar_proveedor(t, lote)
    \/ \E t \in TenantsDe, lote \in Lotes : agregar_proveedor_archivo(t, lote)

SpecAltas == InitAltas /\ [][NextAltas]_vars

\* one tenant with a plan limit up to MaxLimiteBurst that holds the RFCs 1..n
\* (none or MaxRfc of them, all active, before the first call) and sends its
\* supplier list again, grown to j RFCs, or only RFCs it does not hold yet
LotesBurst ==
    {Tramo(1, j) : j \in Max(1, reloj.id)..MaxRfcBurst}
        \cup {Tramo(reloj.id + 1, j) : j \in (reloj.id + 1)..MaxRfcBurst}

InitBurst ==
    /\ planes \in [{1} -> 0..MaxLimiteBurst]
    /\ \E n \in {0, MaxRfc} :
         /\ tenant_proveedores = AlmacenDe(1, n)
         /\ reloj = [id |-> n, now |-> n, corrida |-> 0,
                     max_id |-> MaxRfcBurst, pasos |-> {1}, razones |-> {SinRazon}]
    /\ proveedores = SatPoblado /\ dof_contribuyentes = DofPoblado
    /\ InitComun

NextBurst ==
    \/ \E lote \in LotesBurst : agregar_proveedor(1, lote)
    \/ \E lote \in LotesBurst : agregar_proveedor_archivo(1, lote)

SpecBurst == InitBurst /\ [][NextBurst]_vars

\* one tenant on a plan for MaxRfc - 1 RFCs whose requests and files may carry
\* a razon_social, and which groups, deactivates and activates its RFCs
Razones == {SinRazon, "ACME SA", "ACME SA DE CV"}
Grupos == {NULL, 1}

InitDatos ==
    /\ planes = [t \in {1} |-> MaxRfc - 1]
    /\ tenant_proveedores = {}
    /\ proveedores = SatPoblado /\ dof_contribuyentes = DofPoblado
    /\ reloj = [id |-> 0, now |-> 0, corrida |-> 0, max_id |-> MaxRfc,
                pasos |-> {1}, razones |-> Razones]
    /\ InitComun

NextDatos ==
    \/ \E lote \in Lotes : agregar_proveedor(1, lote)
    \/ \E lote \in Lotes : agregar_proveedor_archivo(1, lote)
    \/ \E rfc \in Rfcs, grupo_id \in Grupos : asignar_grupo_rfc(1, rfc, grupo_id)
    \/ \E rfc \in Rfcs, activo \in BOOLEAN : actualizar_estado_rfc(1, rfc, activo)

SpecDatos == InitDatos /\ [][NextDatos]_vars

\* payment orders: tenant 1 holds MaxRfc active memberships on a plan for one
\* of them (it was moved to a smaller plan), the other tenants hold none
InitPago ==
    /\ planes = [t \in Tenants |-> 1]
    /\ tenant_proveedores = AlmacenDe(1, MaxRfc)
    /\ proveedores = SatPoblado /\ dof_contribuyentes = DofPoblado
    /\ reloj = [id |-> MaxRfc, now |-> MaxRfc, corrida |-> 0, max_id |-> MaxRfc,
                pasos |-> {1}, razones |-> {SinRazon}]
    /\ InitComun

NextPago ==
    \/ \E t \in TenantsDe, rfcs \in ListasCrudas, con_intent \in BOOLEAN :
          crear_orden_excedentes(t, rfcs, con_intent)
    \/ \E orden \in 1..MaxOrdenes, con_intent \in BOOLEAN :
          procesar_pago_exitoso(orden, con_intent)
    \/ \E orden \in 1..MaxOrdenes : procesar_pago_fallido(orden)
    \/ insertar_detalles
    \/ falla_detalles
    \/ falla_commit
    \/ commit
    \/ rollback

SpecPago == InitPago /\ [][NextPago]_vars

\* conciliar_rfcs_especificos called with every list of up to MaxLote RFCs, raw
\* or normalised, for tenants on a plan for one RFC that hold the RFCs 1..n
InitEspecificos ==
    /\ planes = [t \in Tenants |-> 1]
    /\ \E n \in [Tenants -> 0..MaxRfc] :
         tenant_proveedores = UNION {AlmacenDe(t, n[t]) : t \in Tenants}
    /\ proveedores = SatPoblado /\ dof_contribuyentes = DofPoblado
    /\ reloj = [id |-> NumTenants * MaxRfc, now |-> MaxRfc, corrida |-> 0,
                max_id |-> NumTenants * MaxRfc, pasos |-> {1},
                razones |-> {SinRazon}]
    /\ InitComun

NextEspecificos ==
    \/ \E t \in TenantsDe, rfcs \in ListasCrudas :
          conciliar_rfcs_especificos(t, rfcs, 0) /\ UNCHANGED ordenes
    \/ insertar_detalles
    \/ falla_detalles
    \/ falla_commit
    \/ commit
    \/ rollback

SpecEspecificos == InitEspecificos /\ [][NextEspecificos]_vars

\* the fleet runner over NumTenantsFlota tenants, each holding up to MaxLote
\* memberships on a plan for one, against populated or empty directories
InitFlota ==
    /\ planes = [t \in 1..NumTenantsFlota |-> 1]
    /\ \E n \in [1..NumTenantsFlota -> 0..MaxLote] :
         tenant_proveedores = UNION {AlmacenDe(t, n[t]) : t \in 1..NumTenantsFlota}
    /\ \/ proveedores = SatPoblado /\ dof_contribuyentes = DofPoblado
       \/ proveedores = SatVacio /\ dof_contribuyentes = {}
    /\ reloj = [id |-> NumTenantsFlota * MaxRfc, now |-> MaxRfc, corrida |-> 0,
                max_id |-> NumTenantsFlota * MaxRfc, pasos |-> {1}, razones |-> {SinRazon}]
    /\ InitComun

NextFlota ==
    \/ \E tipo \in {"Automatica", "DOF + SAT"} : todos_tenants(tipo)
    \/ flota_tenant
    \/ flota_fin
    \/ insertar_detalles
    \/ falla_detalles
    \/ falla_commit
    \/ commit
    \/ rollback

SpecFlota == InitFlota /\ [][NextFlota]_vars

\* the fleet runner's tenants reading the details of the runs, their own and
\* the others', by the run ids handed out and one that was never handed out
IdsCorrida == 1..(NumTenantsFlota * MaxCorridas + 1)

NextDetalles ==
    \/ NextFlota
    \/ \E t \in TenantsDe, historial_id \in IdsCorrida :
          ruta_obtener_detalles_conciliacion(t, historial_id)

SpecDetalles == InitFlota /\ [][NextDetalles]_vars

\* the audit trail under every writer: two tenants on a plan for one RFC, the
\* first holding two active memberships, the second one; memberships are added,
\* switched and removed, the directories are refreshed, and runs come from the
\* route, from the fleet runners and from paid orders
InitAuditoria ==
    /\ planes = [t \in Tenants |-> 1]
    /\ tenant_proveedores = AlmacenDe(1, 2) \cup AlmacenDe(2, 1)
    /\ proveedores = SatPoblado /\ dof_contribuyentes = DofPoblado
    /\ reloj = [id |-> NumTenants * MaxRfc, now |-> MaxRfc, corrida |-> 0,
                max_id |-> NumTenants * MaxRfc + 1, pasos |-> {1},
                razones |-> {SinRazon}]
    /\ InitComun

NextAuditoria ==
    \/ \E rfc \in Rfcs : agregar_proveedor(1, <<rfc>>)
    \/ \E rfc \in Rfcs, activo \in BOOLEAN : actualizar_estado_rfc(1, rfc, activo)
    \/ \E rfc \in Rfcs : eliminar_proveedor(1, rfc)
    \/ \E sat \in {SatPoblado, SatVacio} : process_csv_data_from_s3_optimized(sat)
    \/ \E dof \in {DofPoblado, {}} : procesar_dof_fecha(dof)
    \/ \E t \in Tenants : ruta_realizar_conciliacion(t)
    \/ \E tipo \in {"Automatica", "DOF + SAT"} : todos_tenants(tipo)
    \/ flota_tenant
    \/ flota_fin
    \/ \E rfc \in Rfcs : crear_orden_excedentes(1, <<rfc>>, TRUE)
    \/ \E orden \in 1..MaxOrdenes : procesar_pago_exitoso(orden, TRUE)
    \/ \E orden \in 1..MaxOrdenes : procesar_pago_fallido(orden)
    \/ insertar_detalles
    \/ falla_detalles
    \/ falla_commit
    \/ commit
    \/ rollback

SpecAuditoria == InitAuditoria /\ [][NextAuditoria]_vars

\* the plan limit as the reconciliations resolve it: one tenant without a plan,
\* on an unlimited plan or on a plan for 0..MaxLimite RFCs, holding up to
\* MaxRfc active memberships, reconciled by the route and by the fleet runners
InitLimite ==
    /\ planes \in [{1} -> Limites \cup {SinPlan}]
    /\ \E n \in 0..MaxRfc : tenant_proveedores = AlmacenDe(1, n)
    /\ \/ proveedores = SatPoblado /\ dof_contribuyentes = DofPoblado
       \/ proveedores = SatVacio /\ dof_contribuyentes = {}
    /\ reloj = [id |-> MaxRfc, now |-> MaxRfc, corrida |-> 0, max_id |-> MaxRfc,
                pasos |-> {1}, razones |-> {SinRazon}]
    /\ InitComun

NextLimite ==
    \/ ruta_realizar_conciliacion(1)
    \/ \E tipo \in {"Automatica", "DOF + SAT"} : todos_tenants(tipo)
    \/ flota_tenant
    \/ flota_fin
    \/ insertar_detalles
    \/ falla_detalles
    \/ falla_commit
    \/ commit
    \/ rollback

SpecLimite == InitLimite /\ [][NextLimite]_vars

\* the FIFO position: tenant 1 holds MaxRfc active memberships added one by
\* one, on a plan for 1..MaxLimite RFCs that it may change; it deactivates,
\* activates and removes memberships and is reconciled by the route (the other
\* tenants hold nothing and do nothing)
InitFifo ==
    /\ planes \in {[t \in Tenants |-> IF t = 1 THEN L ELSE 1] : L \in 1..MaxLimite}
    /\ tenant_proveedores = AlmacenDe(1, MaxRfc)
    /\ proveedores = SatPoblado /\ dof_contribuyentes = DofPoblado
    /\ reloj = [id |-> NumTenants * MaxRfc, now |-> MaxRfc, corrida |-> 0,
                max_id |-> NumTenants * MaxRfc, pasos |-> {1},
                razones |-> {SinRazon}]
    /\ InitComun

NextFifo ==
    \/ \E rfc \in Rfcs, activo \in BOOLEAN : actualizar_estado_rfc(1, rfc, activo)
    \/ \E rfc \in Rfcs : eliminar_proveedor(1, rfc)
    \/ \E limite \in 1..MaxLimite : update_tenant(1, limite)
    \/ ruta_realizar_conciliacion(1)
    \/ insertar_detalles
    \/ falla_detalles
    \/ falla_commit
    \/ commit
    \/ rollback

SpecFifo == InitFifo /\ [][NextFifo]_vars

\* NumProcesos membership requests of one tenant in parallel: the tenant is on
\* a plan for 1 or 2 RFCs and holds nothing or the RFC 1, active or inactive
InitParalelo ==
    /\ planes \in [{1} -> 1..2]
    /\ \E n \in 0..1, activo \in BOOLEAN :
         tenant_proveedores = {[f EXCEPT !.activo = activo] : f \in AlmacenDe(1, n)}
    /\ proveedores = SatPoblado /\ dof_contribuyentes = DofPoblado
    /\ reloj = [id |-> MaxRfc, now |-> MaxRfc, corrida |-> 0,
                max_id |-> (NumProcesos + 1) * MaxRfc, pasos |-> {1},
                razones |-> {SinRazon}]
    /\ InitTablas
    /\ transacciones = [p \in Procesos |-> SinTransaccion]

NextParalelo ==
    \/ \E p \in Procesos, i \in Rfcs, j \in Rfcs :
          i <= j /\ j - i < MaxLote /\ batch_contar(p, 1, Tramo(i, j))
    \/ \E p \in Procesos : batch_commit(p)
    \/ \E p \in Procesos, rfc \in Rfcs : activar_contar(p, 1, rfc)
    \/ \E p \in Procesos : activar_commit(p)

SpecParalelo == InitParalelo /\ [][NextParalelo]_vars

TypeOK ==
    /\ pc \in {"idle", "historial", "detalles", "error"}
    /\ \A f \in tenant_proveedores : f.tenant_id \in TenantsDe

\* ------------------------------------------------------------------ claims
\* the run of the request in flight and the RFCs it processes
EnCorrida == pc \in {"historial", "detalles"}
CorridaEnCurso == CHOOSE h \in sesion.historial : h.id = req.historial_id
RfcsEnCurso == [k \in 1..Len(req.detalles_dict) |-> req.detalles_dict[k].rfc]
SinRepetidos(q) == \A i, j \in 1..Len(q) : i # j => q[i] # q[j]
PorCuota == {"realizar_conciliacion", "realizar_conciliacion_dof_proveedores"}

\* C1 (FIFO quota): a run of realizar_conciliacion or of
\* realizar_conciliacion_dof_proveedores for a tenant with plan limit L and
\* more than L active memberships processes exactly L RFCs, each of an active
\* membership, none twice, and no active membership left out is older
\* (smaller created_at) than one that was taken; inactive memberships never
\* appear in the run
C1_FifoQuota ==
    (EnCorrida /\ req.op \in PorCuota /\ planes[req.tenant] # NULL
        /\ Cardinality(ActivosDe(tenant_proveedores, req.tenant)) > planes[req.tenant])
    => LET activos == ActivosDe(tenant_proveedores, req.tenant)
           tomados == {f \in activos : f.rfc \in Rango(RfcsEnCurso)}
       IN /\ Len(RfcsEnCurso) = planes[req.tenant]
          /\ CorridaEnCurso.rfcs_procesados = planes[req.tenant]
          /\ SinRepetidos(RfcsEnCurso)
          /\ \A k \in 1..Len(RfcsEnCurso) : \E f \in activos : f.rfc = RfcsEnCurso[k]
          /\ \A f \in tomados, g \in activos \ tomados : f.created_at <= g.created_at

\* a DOF run that took the older two of three active memberships and left
\* out the newest one and nothing else
C1_Witness ==
    /\ pc = "detalles" /\ req.op = "realizar_conciliacion_dof_proveedores"
    /\ planes[req.tenant] = 2
    /\ Cardinality(ActivosDe(tenant_proveedores, req.tenant)) = 3
    /\ Len(RfcsEnCurso) = 2
    /\ \E g \in ActivosDe(tenant_proveedores, req.tenant) :
          /\ g.rfc \notin Rango(RfcsEnCurso)
          /\ \A f \in ActivosDe(tenant_proveedores, req.tenant) :
                f # g => f.created_at < g.created_at

\* the step is the whole of the membership operation op: its response carries
\* the tenant and, for an add, the batch as it was sent
EsAlta(op) == pc = "idle" /\ pc' = "idle" /\ ~ flota.activa /\ ultimo'.op = op

\* B = L + floor(L * 0.15)
Techo(L) == L + ((15 * L) \div 100)
NumActivos(tp, t) == Cardinality(ActivosDe(tp, t))

\* C2 (burst ceiling): no step of a sequence of batch-add calls leaves a
\* tenant with plan limit L with more active memberships than B, or than it
\* had before the step if that was more; and a membership the step created is
\* active only if it is among the first B active memberships of the tenant
C2_BurstCeiling ==
    [][\A t \in TenantsDe :
          planes[t] # NULL =>
            /\ NumActivos(tenant_proveedores', t)
                  <= Max(Techo(planes[t]), NumActivos(tenant_proveedores, t))
            /\ \A f \in ActivosDe(tenant_proveedores', t) \ tenant_proveedores :
                  Cardinality({g \in ActivosDe(tenant_proveedores', t) : g.id <= f.id})
                      <= Techo(planes[t])]_vars

\* a tenant with limit 7 (B = 8) that a file upload left with 8 active
\* memberships and at least one inactive one
C2_Witness ==
    /\ ultimo.op = "agregar_proveedor_archivo" /\ ultimo.estado = "ok"
    /\ planes[1] = 7
    /\ NumActivos(tenant_proveedores, 1) = 8
    /\ \E f \in FilasDe(tenant_proveedores, 1) : ~ f.activo

\* the decision the rule gives to position k of a batch: the RFC is new, and
\* active iff the active count before the call plus the new RFCs before k
\* is below B
NuevosAntes(tp, t, lote, k) ==
    Cardinality({j \in 1..(k - 1) : ~ \E f \in FilasDe(tp, t) : f.rfc = lote[j]})
ActivoSegunRegla(tp, t, L, lote, k) ==
    NumActivos(tp, t) + NuevosAntes(tp, t, lote, k) < Techo(L)

\* C3 (burst decision rule): a call of agregar_proveedores_batch does not
\* fail, and every RFC of the batch that the tenant did not hold is created,
\* active iff the running counter was below B when its turn came in input
\* order; the result of an active one carries no message, the result of an
\* inactive one the burst advisory
C3_ReglaBurst ==
    [][(EsAlta("agregar_proveedor") /\ planes[ultimo'.tenant] # NULL) =>
          LET t == ultimo'.tenant
              lote == ultimo'.lote
          IN /\ ultimo'.estado = "ok"
             /\ \A k \in 1..Len(lote) :
                  (~ \E f \in FilasDe(tenant_proveedores, t) : f.rfc = lote[k]) =>
                    LET activo == ActivoSegunRegla(tenant_proveedores, t,
                                                   planes[t], lote, k)
                    IN /\ \E f \in FilasDe(tenant_proveedores', t) :
                             f.rfc = lote[k] /\ f.activo = activo
                       /\ ultimo'.resultados[k].error
                             = IF activo THEN "" ELSE AvisoInactivo]_vars

\* P1 as a predicate of a table
Unico(tp) ==
    \A f, g \in tp : (f.tenant_id = g.tenant_id /\ f.rfc = g.rfc) => f = g
\* the add of an RFC the tenant holds creates nothing and reports the holder
Reporta ==
    LET t == ultimo'.tenant
        lote == ultimo'.lote
    IN
    \A k \in 1..Len(lote) :
       \A f \in FilasDe(tenant_proveedores, t) :
          f.rfc = lote[k] =>
            /\ {g \in FilasDe(tenant_proveedores', t) : g.rfc = lote[k]} = {f}
            /\ \E i \in 1..Len(ultimo'.resultados) :
                  /\ ultimo'.resultados[i].rfc = lote[k]
                  /\ ultimo'.resultados[i].error = YaExiste
                  /\ ultimo'.resultados[i].proveedor_id = f.id

EstadosDof(rfc) == {c.situacion : c \in {x \in dof_contribuyentes : x.rfc = rfc}}

\* C5 (DOF priority): every detail row of a committed DOF-priority run carries
\* a Gazette status of its RFC if the Gazette Directory has the RFC, else the
\* Supplier Directory status if that directory has it, else "No encontrado";
\* so an RFC both directories hold with different statuses never carries the
\* Supplier Directory status
C5_PrioridadDof ==
    \A h \in conciliacion_historial :
       h.tipo_conciliacion = "DOF + SAT" =>
         \A k \in 1..Len(DetallesDe(resultado_conciliaciones, h.id)) :
            LET d == DetallesDe(resultado_conciliaciones, h.id)[k] IN
            IF EstadosDof(d.rfc) # {} THEN d.estado \in EstadosDof(d.rfc)
            ELSE IF proveedores[d.rfc] # "" THEN d.estado = proveedores[d.rfc]
            ELSE d.estado = NoEncontrado

\* a committed DOF-priority run over three RFCs: one in both directories with
\* different statuses, one in the Supplier Directory only, one in neither
C5_Witness ==
    \E h \in conciliacion_historial :
       /\ h.tipo_conciliacion = "DOF + SAT"
       /\ LET d == DetallesDe(resultado_conciliaciones, h.id) IN
          /\ \E k \in 1..Len(d) :
                /\ EstadosDof(d[k].rfc) # {} /\ proveedores[d[k].rfc] # ""
                /\ proveedores[d[k].rfc] \notin EstadosDof(d[k].rfc)
          /\ \E k \in 1..Len(d) :
                EstadosDof(d[k].rfc) = {} /\ d[k].estado = proveedores[d[k].rfc]
          /\ \E k \in 1..Len(d) : d[k].estado = NoEncontrado

\* C6 (detail completeness): every committed run, whichever of the three
\* functions wrote it, has as many detail rows as its rfcs_procesados, as
\* many of them with an estado other than "No encontrado" as its
\* coincidencias, and coincidencias <= rfcs_procesados
C6_DetallesCompletos ==
    \A h \in conciliacion_historial :
       LET d == DetallesDe(resultado_conciliaciones, h.id) IN
       /\ h.estado = "completado"
       /\ Len(d) = h.rfcs_procesados
       /\ Cardinality({k \in 1..Len(d) : d[k].estado # NoEncontrado}) = h.coincidencias
       /\ h.coincidencias <= h.rfcs_procesados

\* a committed run of conciliar_rfcs_especificos over two RFCs of which the
\* Supplier Directory has one
C6_Witness ==
    \E h \in conciliacion_historial :
       /\ h.tipo_conciliacion = "Excedentes - Pago"
       /\ h.rfcs_procesados = 2 /\ h.coincidencias = 1
       /\ Len(DetallesDe(resultado_conciliaciones, h.id)) = 2

\* C7: the detail rows of every committed run are in one-to-one
\* correspondence with the RFCs selected for the run: every selected RFC has
\* exactly one detail row and every detail row is of a selected RFC
C7_UnoAUno ==
    \A h \in conciliacion_historial :
       LET d == DetallesDe(resultado_conciliaciones, h.id)
           sel == {NormalizarRfc(r) : r \in Rango(seleccion[h.id])}
       IN /\ \A r \in sel : Cardinality({k \in 1..Len(d) : d[k].rfc = r}) = 1
          /\ \A k \in 1..Len(d) : d[k].rfc \in sel

\* a committed run of realizar_conciliacion for which two RFCs were selected,
\* one of them unknown to the Supplier Directory
C7_Witness ==
    \E h \in conciliacion_historial :
       /\ h.tipo_conciliacion = "Manual"
       /\ Len(seleccion[h.id]) = 2
       /\ \E k \in 1..2 : proveedores[seleccion[h.id][k]] = ""

\* the run and the details a table holds of the attempt id
NadaDe(ch, rc, ses, id) ==
    /\ ~ \E h \in ch \cup ses.historial : h.id = id
    /\ DetallesDe(rc \o ses.detalles, id) = <<>>

\* C8 (atomicity): when the caller rolls back a reconciliation that failed
\* after its run row was flushed, neither the run row nor a detail row of the
\* attempt is left, in the committed tables or in the session; and every run
\* in the committed tables has all its detail rows and its duration
C8_Atomicidad ==
    [][/\ (pc = "error" /\ pc' = "idle" /\ req.historial_id # 0) =>
             NadaDe(conciliacion_historial', resultado_conciliaciones', sesion',
                    req.historial_id)
       /\ \A h \in conciliacion_historial' :
             /\ h.duracion_ms = DuracionMedida
             /\ Len(DetallesDe(resultado_conciliaciones', h.id)) = h.rfcs_procesados]_vars

\* the route answered with an error for an attempt whose run row was flushed
\* for two selected RFCs, and nothing is committed
C8_Witness ==
    /\ pc = "idle"
    /\ ultimo.op = "realizar_conciliacion" /\ ultimo.estado = "error"
    /\ ultimo.historial_id # 0
    /\ Len(seleccion[ultimo.historial_id]) = 2
    /\ conciliacion_historial = {} /\ resultado_conciliaciones = <<>>

\* the fleet runner's aggregate: one item per tenant in loop order, the
\* counters count the items, and the run of every successful item is committed
FinFlota(u, tenants, ch, rc) ==
    /\ u.total_tenants = Len(tenants)
    /\ u.total_procesados = Len(tenants) /\ Len(u.resultados) = Len(tenants)
    /\ u.total_exitosos
         = Cardinality({k \in 1..Len(u.resultados) : u.resultados[k].historial_id # NULL})
    /\ u.total_fallidos
         = Cardinality({k \in 1..Len(u.resultados) : u.resultados[k].historial_id = NULL})
    /\ \A k \in 1..Len(u.resultados) :
         /\ u.resultados[k].tenant_id = tenants[k]
         /\ u.resultados[k].historial_id # NULL =>
               \E h \in ch : /\ h.id = u.resultados[k].historial_id
                             /\ h.tenant_id = tenants[k]
                             /\ Len(DetallesDe(rc, h.id)) = h.rfcs_procesados

\* C9 (fleet isolation): in both fleet runners a committed run is never taken
\* back; when a tenant's reconciliation throws, the rollback removes that
\* attempt only, the tenant is counted as failed and the loop goes on to the
\* next tenant; when it succeeds its run is committed and counted; and the
\* aggregate has one item for every tenant
C9_AislamientoFlota ==
    [][/\ conciliacion_historial \subseteq conciliacion_historial'
       /\ \A h \in conciliacion_historial :
             DetallesDe(resultado_conciliaciones', h.id)
                = DetallesDe(resultado_conciliaciones, h.id)
       /\ (flota.activa /\ pc = "error" /\ pc' = "idle") =>
             /\ conciliacion_historial' = conciliacion_historial
             /\ req.historial_id # 0 =>
                   NadaDe(conciliacion_historial', resultado_conciliaciones',
                          sesion', req.historial_id)
             /\ flota'.activa /\ flota'.i = flota.i + 1
             /\ flota'.total_fallidos = flota.total_fallidos + 1
             /\ flota'.total_exitosos = flota.total_exitosos
       /\ (flota.activa /\ pc = "detalles" /\ pc' = "idle") =>
             /\ \E h \in conciliacion_historial' \ conciliacion_historial :
                   h.id = req.historial_id /\ h.tenant_id = flota.tenants[flota.i]
             /\ flota'.activa /\ flota'.i = flota.i + 1
             /\ flota'.total_exitosos = flota.total_exitosos + 1
             /\ flota'.total_fallidos = flota.total_fallidos
       /\ (flota.activa /\ ~ flota'.activa) =>
             FinFlota(ultimo', flota.tenants, conciliacion_historial',
                      resultado_conciliaciones')]_vars

\* the DOF fleet runner over three tenants returned 2 successes and 1 failure:
\* the second tenant threw after its run row was flushed, the runs of the
\* first and of the third are committed and the second has none
C9_Witness ==
    /\ ultimo.op = "todos_tenants" /\ ultimo.tipo = "DOF + SAT"
    /\ ultimo.total_tenants = 3
    /\ ultimo.total_exitosos = 2 /\ ultimo.total_fallidos = 1
    /\ ultimo.resultados[2].historial_id = NULL
    /\ ultimo.resultados[2].estado = "error: excepcion"
    /\ 2 \in DOMAIN seleccion
    /\ \A k \in {1, 3} :
          \E h \in conciliacion_historial :
             h.id = ultimo.resultados[k].historial_id
             /\ h.tenant_id = ultimo.resultados[k].tenant_id
    /\ ~ \E h \in conciliacion_historial :
            h.tenant_id = ultimo.resultados[2].tenant_id

\* C10: the committed tables, which are all that another transaction reads,
\* never hold a run without all of its detail rows nor a detail row without
\* its run: a run appears in them in the step of the commit that follows the
\* reconciliation, together with every detail row of the run, and its detail
\* rows do not change afterwards
C10_VisiblesJuntos ==
    [][/\ \A h \in conciliacion_historial' :
             IF h \in conciliacion_historial
             THEN DetallesDe(resultado_conciliaciones', h.id)
                     = DetallesDe(resultado_conciliaciones, h.id)
             ELSE /\ pc = "detalles" /\ pc' = "idle"
                  /\ h.id = req.historial_id
                  /\ DetallesDe(resultado_conciliaciones, h.id) = <<>>
                  /\ DetallesDe(resultado_conciliaciones', h.id)
                        = ConId(req.detalles_dict, h.id)
                  /\ Len(req.detalles_dict) = h.rfcs_procesados
       /\ \A k \in 1..Len(resultado_conciliaciones') :
             \E h \in conciliacion_historial' :
                h.id = resultado_conciliaciones'[k].conciliacion_id]_vars

\* a committed run of the fleet runner with three detail rows
C10_Witness ==
    \E h \in conciliacion_historial :
       /\ h.tipo_conciliacion = "Automatica"
       /\ h.rfcs_procesados = 3
       /\ Len(DetallesDe(resultado_conciliaciones, h.id)) = 3

\* the membership of tenant t for rfc in the table tp
FilaDe(tp, t, rfc) == CHOOSE f \in tp : f.tenant_id = t /\ f.rfc = rfc
Tiene(tp, t, rfc) == \E f \in tp : f.tenant_id = t /\ f.rfc = rfc

\* C11: actualizar_estado_operativo_rfc on an existing membership raises the
\* burst validation error exactly when it is asked to activate an inactive
\* membership while the tenant's active count A is at or over the burst
\* ceiling B, and then the table is left as it was; in every other case the
\* flag of the membership is the requested one afterwards
C11_ActivarConBurst ==
    [][(EsAlta("actualizar_estado_rfc")
          /\ Tiene(tenant_proveedores, ultimo'.tenant, ultimo'.rfc)) =>
         LET t == ultimo'.tenant
             f == FilaDe(tenant_proveedores, t, ultimo'.rfc)
             sobre == /\ ultimo'.activo /\ ~ f.activo
                      /\ planes[t] # NULL
                      /\ NumActivos(tenant_proveedores, t) >= Techo(planes[t])
         IN /\ (ultimo'.estado = "burst") <=> sobre
            /\ sobre => tenant_proveedores' = tenant_proveedores
            /\ ~ sobre =>
                 /\ ultimo'.estado = "ok"
                 /\ tenant_proveedores' =
                      (tenant_proveedores \ {f})
                         \cup {[f EXCEPT !.activo = ultimo'.activo]}]_vars

\* C12: on an unlimited plan (limit NULL) every new RFC of a batch sent to
\* agregar_proveedores_batch or agregar_proveedores_batch_con_datos is created
\* active, however many active memberships the tenant already has
C12_IlimitadoActivo ==
    [][((EsAlta("agregar_proveedor") \/ EsAlta("agregar_proveedor_archivo"))
          /\ planes[ultimo'.tenant] = NULL) =>
         \A r \in Rango(ultimo'.lote) :
            ~ Tiene(tenant_proveedores, ultimo'.tenant, r) =>
               /\ Tiene(tenant_proveedores', ultimo'.tenant, r)
               /\ FilaDe(tenant_proveedores', ultimo'.tenant, r).activo]_vars

\* C13: an add never changes activo, grupo_id or created_at of a membership
\* that existed before the call: agregar_proveedores_batch leaves every such
\* row as it was, agregar_proveedores_batch_con_datos changes at most its
\* razon_social (fecha_inicio, fecha_baja), and no membership that was active
\* is inactive afterwards
C13_AltaNoToca ==
    [][/\ EsAlta("agregar_proveedor") =>
            \A f \in tenant_proveedores : f \in tenant_proveedores'
       /\ EsAlta("agregar_proveedor_archivo") =>
            \A f \in tenant_proveedores :
               \E g \in tenant_proveedores' :
                  /\ g.id = f.id /\ g.tenant_id = f.tenant_id /\ g.rfc = f.rfc
                  /\ g.activo = f.activo /\ g.grupo_id = f.grupo_id
                  /\ g.created_at = f.created_at
       /\ (EsAlta("agregar_proveedor") \/ EsAlta("agregar_proveedor_archivo")) =>
            \A t \in TenantsDe :
               {f.id : f \in ActivosDe(tenant_proveedores, t)}
                  \subseteq {f.id : f \in ActivosDe(tenant_proveedores', t)}]_vars

\* a file re-added an RFC the tenant holds inactive and in a group, wrote its
\* razon_social, and created another RFC in the same call
C13_Witness ==
    /\ ultimo.op = "agregar_proveedor_archivo" /\ ultimo.estado = "ok"
    /\ \E i, j \in 1..Len(ultimo.resultados) :
         /\ ultimo.resultados[i].error = YaExiste
         /\ ultimo.resultados[j].error = ""
         /\ \E f \in tenant_proveedores :
              /\ f.rfc = ultimo.resultados[i].rfc
              /\ ~ f.activo /\ f.grupo_id = 1
              /\ f.razon_social = "ACME SA DE CV"

\* the committed run with this id is an "Excedentes - Pago" run of the order's
\* tenant whose detail RFCs are the RFCs of the order
CorridaDeOrden(ch, rc, o, id) ==
    \E h \in ch :
       /\ h.id = id
       /\ h.tipo_conciliacion = "Excedentes - Pago"
       /\ h.tenant_id = o.tenant_id
       /\ LET d == DetallesDe(rc, id)
          IN {d[k].rfc : k \in 1..Len(d)} = Rango(o.rfcs)

\* C14: when the reconciliation that procesar_pago_exitoso started for an
\* order is committed, the order is "pagado", conciliado, and its
\* conciliacion_id is the id of the one run the step committed, an
\* "Excedentes - Pago" run whose detail RFCs are the order's RFCs; and an
\* order is never conciliado without such a committed run
C14_OrdenConciliada ==
    [][/\ (pc = "detalles" /\ pc' = "idle" /\ req.orden # 0) =>
            LET o == ordenes'[req.orden]
                nuevas == conciliacion_historial' \ conciliacion_historial
            IN /\ o.estado = "pagado" /\ o.conciliado
               /\ Cardinality(nuevas) = 1
               /\ \A h \in nuevas : h.id = o.conciliacion_id
               /\ \A h \in conciliacion_historial : h.id # o.conciliacion_id
               /\ CorridaDeOrden(conciliacion_historial', resultado_conciliaciones',
                                 o, o.conciliacion_id)
       /\ \A i \in DOMAIN ordenes' :
            ordenes'[i].conciliado =>
               CorridaDeOrden(conciliacion_historial', resultado_conciliaciones',
                              ordenes'[i], ordenes'[i].conciliacion_id)]_vars

\* an order for two RFCs was paid and reconciled by a run with two details
C14_Witness ==
    /\ ultimo.op = "conciliar_rfcs_especificos" /\ ultimo.estado = "completado"
    /\ \E i \in DOMAIN ordenes :
         /\ ordenes[i].conciliado /\ ordenes[i].estado = "pagado"
         /\ ordenes[i].conciliacion_id = ultimo.historial_id
         /\ Cardinality(Rango(ordenes[i].rfcs)) = 2
         /\ Len(DetallesDe(resultado_conciliaciones, ultimo.historial_id)) = 2

\* C17: an order is conciliado only while its estado is "pagado", and an order
\* that has reached "pagado" never moves to another estado, whatever payment
\* events arrive
C17_MaquinaOrden ==
    [][\A i \in DOMAIN ordenes' :
          /\ ordenes'[i].conciliado => ordenes'[i].estado = "pagado"
          /\ (i \in DOMAIN ordenes /\ ordenes[i].estado = "pagado") =>
                ordenes'[i].estado = "pagado"]_vars

\* the status of an RFC in the Supplier Directory
EstadoSat(rfc) == IF proveedores[rfc] # "" THEN proveedores[rfc] ELSE NoEncontrado
EsEspecificos == req'.op = "conciliar_rfcs_especificos"

\* C15: a call of conciliar_rfcs_especificos with a non-empty list adds exactly
\* one run and prepares exactly one detail row per RFC of the list after
\* upper-casing, trimming and de-duplication, each with the status of the
\* Supplier Directory (never the Gazette's), whether or not the RFC is an
\* active membership of the tenant or within its plan limit; the commit makes
\* durable that one run and exactly those rows
C15_Especificos ==
    [][/\ (pc = "idle" /\ pc' = "historial" /\ EsEspecificos) =>
          \A t \in TenantsDe, rfcs \in ListasCrudas \ {<<>>} :
            conciliar_rfcs_especificos(t, rfcs, req'.orden) =>
              LET d == req'.detalles_dict
                  esperados == {NormalizarRfc(rfcs[k]) : k \in 1..Len(rfcs)}
              IN /\ Cardinality(sesion'.historial \ sesion.historial) = 1
                 /\ \A h \in sesion'.historial \ sesion.historial :
                       /\ h.id = req'.historial_id /\ h.tenant_id = t
                       /\ h.rfcs_procesados = Cardinality(esperados)
                 /\ {d[k].rfc : k \in 1..Len(d)} = esperados
                 /\ Len(d) = Cardinality(esperados)
                 /\ \A k \in 1..Len(d) : d[k].estado = EstadoSat(d[k].rfc)
       /\ (pc = "detalles" /\ pc' = "idle" /\ req.op = "conciliar_rfcs_especificos") =>
              /\ Cardinality(conciliacion_historial' \ conciliacion_historial) = 1
              /\ \A h \in conciliacion_historial' \ conciliacion_historial :
                    h.id = req.historial_id
              /\ resultado_conciliaciones' =
                    resultado_conciliaciones
                       \o ConId(req.detalles_dict, req.historial_id)]_vars

\* a committed run for two RFCs: one in both directories that carries the
\* Supplier Directory's status, one that the tenant does not hold as an active
\* membership
C15_Witness ==
    /\ ultimo.op = "conciliar_rfcs_especificos" /\ ultimo.estado = "completado"
    /\ LET d == DetallesDe(resultado_conciliaciones, ultimo.historial_id)
       IN /\ Len(d) = 2
          /\ \E k \in 1..2 :
               /\ EstadosDof(d[k].rfc) # {}
               /\ d[k].estado = proveedores[d[k].rfc]
               /\ d[k].estado \notin EstadosDof(d[k].rfc)
          /\ \E k \in 1..2 :
               ~ \E f \in tenant_proveedores : f.rfc = d[k].rfc /\ f.activo
          /\ \E f \in tenant_proveedores : f.activo

ErrorListaVacia == "La lista de RFCs no puede estar vacia"

\* C16: conciliar_rfcs_especificos called with an empty RFC list raises the
\* validation error and neither the call nor the handling of the error
\* creates a run row or a detail row, pending or committed
C16_ListaVacia ==
    [][/\ (pc = "idle" /\ EsEspecificos) =>
          \A t \in TenantsDe :
             conciliar_rfcs_especificos(t, <<>>, req'.orden) =>
                /\ pc' = "error" /\ req'.error = ErrorListaVacia
                /\ sesion' = SinSesion
                /\ conciliacion_historial' = conciliacion_historial
                /\ resultado_conciliaciones' = resultado_conciliaciones
       /\ (pc = "error" /\ req.op = "conciliar_rfcs_especificos"
             /\ req.error = ErrorListaVacia) =>
                /\ sesion' = SinSesion
                /\ conciliacion_historial' = conciliacion_historial
                /\ resultado_conciliaciones' = resultado_conciliaciones]_vars

\* the call with the empty list has raised
C16_Witness ==
    /\ pc = "error" /\ req.op = "conciliar_rfcs_especificos"
    /\ req.error = ErrorListaVacia /\ req.historial_id = 0
    /\ sesion = SinSesion /\ conciliacion_historial = {}
    /\ resultado_conciliaciones = <<>>

\* the estado of the entry of a failed tenant: "error: " and the message
EstadosError ==
    {"error: " \o e : e \in {"excepcion", "No hay proveedores para conciliar"}
                              \cup Correos}

\* every entry is that of a failed tenant (zero counts, "error: ..", no run id)
\* or carries the id of a committed run of its tenant
EntradasBien(r, ch) ==
    \A k \in 1..Len(r) :
       IF r[k].estado \in EstadosError \/ r[k].historial_id = NULL
       THEN /\ r[k].estado \in EstadosError /\ r[k].historial_id = NULL
            /\ r[k].rfcs_procesados = 0 /\ r[k].coincidencias = 0
       ELSE \E h \in ch : h.id = r[k].historial_id /\ h.tenant_id = r[k].tenant_id

Fallidas(r) == {k \in 1..Len(r) : r[k].estado \in EstadosError}

\* C18: while the fleet runner loops, total_exitosos + total_fallidos is the
\* number of entries, one per tenant handled so far; its result has
\* total_exitosos + total_fallidos = total_procesados = total_tenants and
\* exactly one entry per active tenant; a failed tenant's entry has zero
\* counts, an estado "error: .." and no run id, a succeeded tenant's entry
\* the id of a committed run
C18_ResultadoFlota ==
    /\ flota.activa =>
          /\ flota.total_exitosos + flota.total_fallidos = Len(flota.resultados)
          /\ Len(flota.resultados) = flota.i - 1
          /\ flota.total_fallidos = Cardinality(Fallidas(flota.resultados))
          /\ \A k \in 1..Len(flota.resultados) :
                flota.resultados[k].tenant_id = flota.tenants[k]
          /\ EntradasBien(flota.resultados, conciliacion_historial)
    /\ ultimo.op = "todos_tenants" =>
          /\ ultimo.total_exitosos + ultimo.total_fallidos = ultimo.total_procesados
          /\ ultimo.total_procesados = ultimo.total_tenants
          /\ ultimo.total_tenants = Cardinality(TenantsDe)
          /\ Len(ultimo.resultados) = ultimo.total_tenants
          /\ \A t \in TenantsDe :
                Cardinality({k \in 1..Len(ultimo.resultados) :
                                ultimo.resultados[k].tenant_id = t}) = 1
          /\ ultimo.total_fallidos = Cardinality(Fallidas(ultimo.resultados))
          /\ EntradasBien(ultimo.resultados, conciliacion_historial)

\* the fleet runner returned one success, with a run that processed an RFC,
\* and two failures
C18_Witness ==
    /\ ultimo.op = "todos_tenants" /\ ultimo.tipo = "Automatica"
    /\ ultimo.total_tenants = 3 /\ ultimo.total_procesados = 3
    /\ ultimo.total_exitosos = 1 /\ ultimo.total_fallidos = 2
    /\ \E k \in 1..3 :
         /\ ultimo.resultados[k].estado = "completado"
         /\ ultimo.resultados[k].rfcs_procesados >= 1
         /\ \E h \in conciliacion_historial :
               h.id = ultimo.resultados[k].historial_id

\* C19: when the notification step of a tenant whose reconciliation was
\* committed raises, the tenant is still counted in total_exitosos and not in
\* total_fallidos, its entry is that of its committed run, the run and its
\* details stay committed, and the loop goes on to the next tenant until every
\* tenant has an entry
C19_CorreoNoCuenta ==
    [][/\ (flota.activa /\ pc = "detalles" /\ pc' = "idle"
             /\ flota'.correo = "error de correo") =>
             LET e == flota'.resultados[Len(flota'.resultados)] IN
             /\ flota'.total_exitosos = flota.total_exitosos + 1
             /\ flota'.total_fallidos = flota.total_fallidos
             /\ Len(flota'.resultados) = Len(flota.resultados) + 1
             /\ e.tenant_id = req.tenant /\ e.estado = "completado"
             /\ e.historial_id = req.historial_id
             /\ \E h \in conciliacion_historial' :
                   /\ h.id = req.historial_id /\ h.tenant_id = req.tenant
                   /\ Len(DetallesDe(resultado_conciliaciones', h.id))
                         = h.rfcs_procesados
             /\ flota'.activa /\ flota'.i = flota.i + 1
       /\ (flota.activa /\ flota.correo = "error de correo") =>
             /\ conciliacion_historial \subseteq conciliacion_historial'
             /\ flota'.activa => /\ flota'.total_exitosos >= flota.total_exitosos
                                 /\ flota'.i >= flota.i
             /\ ~ flota'.activa => /\ flota.i > Len(flota.tenants)
                                   /\ ultimo'.total_procesados = Len(flota.tenants)
                                   /\ ultimo'.total_exitosos = flota.total_exitosos]_vars

\* the notification of the second of three tenants raised after the first
\* tenant failed: the second is counted as a success and the third is next
C19_Witness ==
    /\ flota.activa /\ flota.correo = "error de correo"
    /\ flota.i = 3 /\ Len(flota.tenants) = 3
    /\ flota.total_exitosos = 1 /\ flota.total_fallidos = 1
    /\ flota.resultados[2].estado = "completado"
    /\ \E h \in conciliacion_historial : h.id = flota.resultados[2].historial_id

\* the in-quota set of a tenant is empty: no active membership or plan limit 0
CuotaVacia(t) == ActivosDe(tenant_proveedores, t) = {} \/ planes[t] = 0

NoHayProveedores == "No hay proveedores para conciliar"

\* C20: realizar_conciliacion_dof_proveedores on a tenant whose in-quota set is
\* empty (no active membership, or plan limit 0) raises: nothing is added to the
\* session, no run id is taken, and unless another exception came first the
\* error is the validation error "No hay proveedores para conciliar"; the
\* caller's rollback then leaves the run and detail tables as they were and
\* reports the tenant as failed with that error
C20_DofSinProveedores ==
    [][/\ (pc = "idle" /\ pc' # "idle"
             /\ req'.op = "realizar_conciliacion_dof_proveedores"
             /\ CuotaVacia(req'.tenant)) =>
             /\ pc' = "error"
             /\ req'.error \in {NoHayProveedores, "excepcion"}
             /\ req'.historial_id = 0
             /\ sesion' = sesion /\ reloj' = reloj
             /\ conciliacion_historial' = conciliacion_historial
             /\ resultado_conciliaciones' = resultado_conciliaciones
       /\ (pc = "idle" /\ pc' # "idle"
             /\ req'.op = "realizar_conciliacion_dof_proveedores"
             /\ req'.error = NoHayProveedores) => CuotaVacia(req'.tenant)
       /\ (pc = "error" /\ req.op = "realizar_conciliacion_dof_proveedores"
             /\ req.error = NoHayProveedores) =>
             /\ pc' = "idle"
             /\ conciliacion_historial' = conciliacion_historial
             /\ resultado_conciliaciones' = resultado_conciliaciones
             /\ sesion'.historial = {}
             /\ flota'.total_fallidos = flota.total_fallidos + 1
             /\ flota'.total_exitosos = flota.total_exitosos
             /\ LET e == flota'.resultados[Len(flota'.resultados)] IN
                  /\ e.tenant_id = req.tenant
                  /\ e.estado = "error: " \o NoHayProveedores
                  /\ e.historial_id = NULL]_vars

\* the DOF runner was refused for a tenant that has active memberships on a
\* plan with limit 0, and no run row was written
C20_Witness ==
    /\ flota.activa /\ flota.tipo = "DOF + SAT" /\ pc = "idle"
    /\ Len(flota.resultados) = 1
    /\ flota.resultados[1].estado = "error: " \o NoHayProveedores
    /\ planes[flota.resultados[1].tenant_id] = 0
    /\ ActivosDe(tenant_proveedores, flota.resultados[1].tenant_id) # {}
    /\ conciliacion_historial = {}

\* the runs of a tenant and the detail rows of those runs
RunsDe(ch, t) == {h \in ch : h.tenant_id = t}
DetallesDeTenant(rc, ch, t) ==
    SelectSeq(rc, LAMBDA d : \E h \in RunsDe(ch, t) : h.id = d.conciliacion_id)

\* C21: a read of the details of run r by tenant T answers not found, with no
\* data field, whenever r is not a committed run of T, and the answer is the one
\* the same read gives on the tables restricted to the runs of T and the detail
\* rows of those runs
C21_DetallesPropios ==
    [][(ultimo' # ultimo /\ ultimo'.op = "obtener_detalles_conciliacion") =>
          LET t == ultimo'.tenant
              r == ultimo'.historial_id
          IN /\ (~ \E h \in conciliacion_historial : h.id = r /\ h.tenant_id = t) =>
                   ultimo' = [op |-> "obtener_detalles_conciliacion", tenant |-> t,
                              historial_id |-> r, estado |-> "404"]
             /\ ultimo' = obtener_detalles_conciliacion(
                             RunsDe(conciliacion_historial, t),
                             DetallesDeTenant(resultado_conciliaciones,
                                              conciliacion_historial, t),
                             t, r)
             /\ ultimo'.estado = "200" =>
                   /\ ultimo'.tenant_id = t
                   /\ \A k \in 1..Len(ultimo'.rfcs) :
                         \E j \in 1..Len(resultado_conciliaciones) :
                            /\ resultado_conciliaciones[j].conciliacion_id = r
                            /\ resultado_conciliaciones[j].rfc = ultimo'.rfcs[k].rfc]_vars

\* a tenant asked for the committed run, with detail rows, of another tenant
\* and was answered not found
C21_Witness ==
    /\ ultimo.op = "obtener_detalles_conciliacion" /\ ultimo.estado = "404"
    /\ \E h \in conciliacion_historial :
          /\ h.id = ultimo.historial_id /\ h.tenant_id # ultimo.tenant
          /\ Len(DetallesDe(resultado_conciliaciones, h.id)) >= 1

\* C22 (append-only audit trail): whatever the step (a membership added,
\* activated, deactivated or removed, a directory refresh, another
\* reconciliation, a payment event, a step of a fleet pass), every committed run
\* is still there after it with the same tenant, rfcs_procesados and
\* coincidencias, and its detail rows are the same rows in the same order
C22_SoloAgrega ==
    [][\A h \in conciliacion_historial :
          /\ \E g \in conciliacion_historial' :
                /\ g.id = h.id /\ g.tenant_id = h.tenant_id
                /\ g.rfcs_procesados = h.rfcs_procesados
                /\ g.coincidencias = h.coincidencias
          /\ \A g \in conciliacion_historial' :
                g.id = h.id => /\ g.rfcs_procesados = h.rfcs_procesados
                               /\ g.coincidencias = h.coincidencias
          /\ SelectSeq(resultado_conciliaciones',
                       LAMBDA d : d.conciliacion_id = h.id)
               = SelectSeq(resultado_conciliaciones,
                           LAMBDA d : d.conciliacion_id = h.id)]_vars

\* the first run of tenant 1 found its oldest RFC in the Supplier Directory;
\* since then that membership was deactivated or removed, the directory was
\* emptied and a second run of the tenant found nothing: the first run still
\* has its counts and its detail row
C22_Witness ==
    /\ proveedores = SatVacio
    /\ \A f \in tenant_proveedores : f.tenant_id = 1 /\ f.rfc = 1 => ~ f.activo
    /\ \E h \in conciliacion_historial :
          /\ h.id = 1 /\ h.tenant_id = 1
          /\ h.rfcs_procesados = 1 /\ h.coincidencias = 1
          /\ DetallesDe(resultado_conciliaciones, 1)
                = <<[conciliacion_id |-> 1, rfc |-> 1, estado |-> "Definitivo"]>>
    /\ \E h \in conciliacion_historial :
          /\ h.id = 2 /\ h.tenant_id = 1
          /\ h.rfcs_procesados = 1 /\ h.coincidencias = 0

\* C23 as stated: realizar_conciliacion for a tenant without a plan or on an
\* unlimited plan (limite_proveedores NULL) selects no RFC and records
\* rfcs_procesados = 0
C23_LimiteCero ==
    (EnCorrida /\ req.op = "realizar_conciliacion"
        /\ planes[req.tenant] \in {SinPlan, NULL})
    => /\ RfcsEnCurso = <<>>
       /\ CorridaEnCurso.rfcs_procesados = 0

\* C23 amended: realizar_conciliacion resolves the plan limit to 0 only for a
\* tenant without a plan, for which it selects no RFC and records
\* rfcs_procesados = 0; the NULL limit of an unlimited plan is passed to the
\* query as no limit, so the run selects every active membership of the tenant
\* and records their number
C23_LimiteResuelto ==
    (EnCorrida /\ req.op = "realizar_conciliacion") =>
       LET activos == ActivosDe(tenant_proveedores, req.tenant) IN
       /\ planes[req.tenant] = SinPlan =>
             /\ RfcsEnCurso = <<>>
             /\ CorridaEnCurso.rfcs_procesados = 0
       /\ planes[req.tenant] = NULL =>
             /\ Rango(RfcsEnCurso) = {f.rfc : f \in activos}
             /\ Len(RfcsEnCurso) = Cardinality(activos)
             /\ CorridaEnCurso.rfcs_procesados = Cardinality(activos)

\* a run of realizar_conciliacion for a tenant on an unlimited plan took all
\* MaxRfc active memberships of the tenant
C23_Witness ==
    /\ EnCorrida /\ req.op = "realizar_conciliacion"
    /\ planes[req.tenant] = NULL
    /\ Len(RfcsEnCurso) = MaxRfc
    /\ CorridaEnCurso.rfcs_procesados = MaxRfc

\* C24: with membership requests of one tenant running in parallel, each
\* counting the active memberships before the other commits, the committed
\* active memberships of a tenant with plan limit L never exceed
\* B = L + floor(L * 0.15)
C24_TechoParalelo ==
    \A t \in TenantsDe :
       planes[t] # NULL => NumActivos(tenant_proveedores, t) <= Techo(planes[t])

\* C25: the payment-success event is idempotent per order: once an order has
\* its "Excedentes - Pago" run, a further delivery of the event for the order
\* commits no other run and the order's conciliacion_id stays on that run
C25_PagoIdempotente ==
    [][\A o \in DOMAIN ordenes :
          ordenes[o].conciliado =>
             /\ ordenes'[o].conciliacion_id = ordenes[o].conciliacion_id
             /\ (pc = "detalles" /\ pc' = "idle" /\ req.orden = o) =>
                   conciliacion_historial' = conciliacion_historial]_vars

\* C26: no RFC of a tenant is in two orders that are both in estado "pagado"
C26_PagadoUnaVez ==
    \A i, j \in DOMAIN ordenes :
       (i # j /\ ordenes[i].tenant_id = ordenes[j].tenant_id
          /\ ordenes[i].estado = "pagado" /\ ordenes[j].estado = "pagado")
       => Rango(ordenes[i].rfcs) \cap Rango(ordenes[j].rfcs) = {}

\* the RFCs of a list of membership rows
RfcsDe(o) == {o[k].rfc : k \in 1..Len(o)}

\* C27: for a tenant with a finite plan limit L, the in-quota set that the
\* reconciliation query selects (LIMIT L in created_at order) and the excess
\* set that get_by_tenant_excedentes returns (OFFSET L in created_at order) are
\* disjoint and their union is the set of the tenant's active memberships,
\* whatever order each of the two queries gives to equal created_at values
C27_Particion ==
    \A t \in TenantsDe :
       planes[t] \notin {NULL, SinPlan} =>
          LET activos == ActivosDe(tenant_proveedores, t) IN
          \A o1, o2 \in OrderByCreatedAt(activos) :
             LET dentro == RfcsDe(Limit(o1, LimiteDelPlan(planes[t])))
                 fuera == RfcsDe(get_by_tenant_excedentes(o2, planes[t]))
             IN /\ dentro \cap fuera = {}
                /\ dentro \cup fuera = {f.rfc : f \in activos}

\* C28: when the reconciliation that a payment-success event started for an
\* order fails, the order is left in estado "pagado" with conciliado = false
\* and conciliacion_id unset, neither a run nor a detail row of the attempt is
\* committed or pending, and the processing of the payment answers success
C28_PagoSinCorrida ==
    [][(pc = "error" /\ pc' = "idle" /\ req.orden # 0) =>
          /\ ordenes'[req.orden].estado = "pagado"
          /\ ~ ordenes'[req.orden].conciliado
          /\ ordenes'[req.orden].conciliacion_id = NULL
          /\ conciliacion_historial' = conciliacion_historial
          /\ resultado_conciliaciones' = resultado_conciliaciones
          /\ sesion' = SinSesion
          /\ ultimo'.success]_vars

\* the active memberships of a tenant in created_at order, the first L of them
\* (what a reconciliation under plan limit L selects), a list without the row
\* x, and a list with the row x at the place of its created_at
OrdenFifo(tp, t) == CHOOSE o \in OrderByCreatedAt(ActivosDe(tp, t)) : TRUE
CuotaFifo(tp, t, L) == Limit(OrdenFifo(tp, t), L)
Quitar(q, x) == SelectSeq(q, LAMBDA f : f.id # x.id)
Insertar(q, x) ==
    SelectSeq(q, LAMBDA f : f.created_at < x.created_at) \o <<x>>
        \o SelectSeq(q, LAMBDA f : f.created_at > x.created_at)
SecRfcs(q) == [k \in 1..Len(q) |-> q[k].rfc]

\* C29: an activation or deactivation leaves the created_at of every membership
\* as it was.  For every plan limit L: when an in-quota membership (one of the
\* first L active ones by created_at) is deactivated or removed, the first L
\* are the others of the quota followed by the oldest active membership that was
\* excess; when a membership is activated again it is back among the active
\* memberships at the place of its original created_at, so that, if the quota
\* was full and its last member is newer, it is in the quota and that newest
\* member is out.  A reconciliation that starts selects the first L for the
\* limit L of the tenant's plan, in that order.
C29_FifoPermanente ==
    [][\A t \in TenantsDe :
          LET tp == tenant_proveedores
              tp2 == tenant_proveedores'
              salen == {f \in ActivosDe(tp, t) :
                           ~ \E g \in ActivosDe(tp2, t) : g.id = f.id}
              entran == {g \in ActivosDe(tp2, t) :
                           ~ \E f \in ActivosDe(tp, t) : f.id = g.id}
          IN /\ (EsAlta("actualizar_estado_rfc") /\ ultimo'.tenant = t) =>
                   /\ \A f \in FilasDe(tp, t) : \E g \in FilasDe(tp2, t) :
                         g.id = f.id /\ g.rfc = f.rfc /\ g.created_at = f.created_at
                   /\ \A g \in FilasDe(tp2, t) : \E f \in FilasDe(tp, t) : f.id = g.id
             /\ (salen # {} /\ entran = {}) =>
                   /\ Cardinality(salen) = 1
                   /\ \A x \in salen, L \in 0..MaxLimite :
                        LET o == OrdenFifo(tp, t)
                            q == Limit(o, L)
                            exc == get_by_tenant_excedentes(o, L)
                        IN (\E k \in 1..Len(q) : q[k] = x) =>
                              CuotaFifo(tp2, t, L)
                                 = Quitar(q, x) \o (IF exc = <<>> THEN <<>>
                                                    ELSE <<exc[1]>>)
             /\ (entran # {} /\ salen = {}
                   /\ \A g \in entran : \E f \in FilasDe(tp, t) : f.id = g.id) =>
                   /\ Cardinality(entran) = 1
                   /\ \A x \in entran, L \in 0..MaxLimite :
                        LET q == CuotaFifo(tp, t, L)
                            q2 == CuotaFifo(tp2, t, L)
                        IN /\ \E f \in FilasDe(tp, t) :
                                 f.id = x.id /\ f.created_at = x.created_at
                           /\ OrdenFifo(tp2, t) = Insertar(OrdenFifo(tp, t), x)
                           /\ (L > 0 /\ Len(q) = L
                                 /\ x.created_at < q[L].created_at) =>
                                 /\ \E k \in 1..L : q2[k] = x
                                 /\ \A k \in 1..L : q2[k] # q[L]
             /\ (pc = "idle" /\ pc' = "historial"
                   /\ req'.op = "realizar_conciliacion" /\ req'.tenant = t) =>
                      [k \in 1..Len(req'.detalles_dict) |-> req'.detalles_dict[k].rfc]
                         = SecRfcs(CuotaFifo(tp, t, LimiteDelPlan(planes[t])))]_vars

\* tenant 1 on a plan for one RFC: its first run, made while its oldest
\* membership (RFC 1) was inactive, took the RFC 2; the membership was then
\* activated again with the created_at it had, and the second run took the
\* RFC 1 and left the RFC 2, still active, out
C29_Witness ==
    /\ planes[1] = 1
    /\ {1, 2} \subseteq DOMAIN seleccion
    /\ seleccion[1] = <<2>> /\ seleccion[2] = <<1>>
    /\ \A id \in {1, 2} : \E h \in conciliacion_historial :
          h.id = id /\ h.tenant_id = 1
    /\ \E f \in ActivosDe(tenant_proveedores, 1) : f.rfc = 1 /\ f.created_at = 1
    /\ \E f \in ActivosDe(tenant_proveedores, 1) : f.rfc = 2

\* C30: after a call of agregar_proveedores_batch through POST
\* /agregar-proveedor, every RFC of the batch has exactly one membership of the
\* tenant, also an RFC the tenant did not hold that the batch carries twice,
\* and the batch took no more active slots than it has distinct new RFCs
C30_LoteRepetido ==
    [][(EsAlta("agregar_proveedor") /\ ultimo'.estado = "ok") =>
          LET t == ultimo'.tenant
              lote == ultimo'.lote
              nuevos == {r \in Rango(lote) :
                           ~ \E f \in FilasDe(tenant_proveedores, t) : f.rfc = r}
          IN /\ \A k \in 1..Len(lote) :
                   Cardinality({f \in FilasDe(tenant_proveedores', t) :
                                   f.rfc = lote[k]}) = 1
             /\ NumActivos(tenant_proveedores', t)
                   <= NumActivos(tenant_proveedores, t) + Cardinality(nuevos)]_vars
====
